---- MODULE Spec2Model ----
(***************************************************************************)
(* Signature-based authorization protocol of minimum-ds:                   *)
(*   public-key-registry  (KeyDirectory)                                   *)
(*   federated-catalog    (CatalogAuthority)                               *)
(*   local-catalog-authz  (LocalAccessController)                          *)
(* The tables of the three databases are the state, each HTTP handler is   *)
(* one action.  Strings are TLA+ strings and the canonical message is      *)
(* their concatenation (\o), as the handlers build it with "+".  A request *)
(* is handled while the server is idle (last = Idle); Reply hands the      *)
(* response back and makes the server idle again.                          *)
(***************************************************************************)
EXTENDS Integers, Sequences, FiniteSets, Bags, TLC

VARIABLES
    public_keys,          \* registry table public_keys: a bag of rows (user_id, public_key)
    federated_catalog,    \* table federated_catalog: data_id -> row (NoEntry: no row)
    local_catalog,        \* table local_catalog: data_id -> row (NoData: no row)
    local_authorization,  \* table local_authorization: <<data_id, grantee>> -> expire_at (NoAuthZ: no row)
    now,                  \* the wall clock read by datetime.now(timezone.utc)
    last,                 \* the request being answered and its HTTP response
    published_under,      \* history: key on file for the owner when the federated entry was added
    administered_under,   \* history: key on file for the admin when the local data was added
    inflight,             \* per worker: the handler it runs, between SELECT and commit
    cascaded,             \* history: grants the last delete of the data_id took with it
    directory_up,         \* whether requests.get reaches the public-key-registry
    users,                \* connector: app/users/<user_id>.json (NoUser: no file)
    key_files,            \* connector: app/keys/<user_id>.pem, as the key pair (NoKey: no file)
    seen                  \* history: the create requests accepted so far, where it is kept

kd_vars == <<public_keys>>
fc_vars == <<federated_catalog, published_under>>
lc_vars == <<local_catalog, local_authorization, administered_under, cascaded>>
cn_vars == <<users, key_files>>
vars == <<public_keys, federated_catalog, local_catalog, local_authorization, now, last,
          published_under, administered_under, inflight, cascaded, directory_up, users,
          key_files, seen>>

------------------------------------------------------------------------------
(* Bounds and input domains *)

MaxTime == 2

Ids == {"A", "B"}
Keys == {"K1", "K2"}          \* PEM public keys of two EC key pairs
DataIds == {"d1", "d2"}
Descriptions == {"x", "xy"}
Endpoints == {"yz", "z"}
NoneStr == "<None>"           \* a JSON body that leaves description out (None)

NoKey == "nokey"
NoEntry == [user_id |-> "-", description |-> "-", endpoint |-> "-"]
NoData == [description |-> "-", admin_id |-> "-", endpoint |-> "-"]
NoAuthZ == -1
PasswordHashes == {"h1", "h2"}    \* SHA256 hashes the web application sends
NoUser == [password_hash |-> "-", public_key |-> "-"]

Times == 0..MaxTime

\* datetime ... .isoformat().replace("+00:00", "Z") of the clock value t
Iso(t) == ToString(t) \o "Z"
\* the same instant written without an offset, and a string that is no date
Naive(t) == ToString(t)
NotADate == "soon"

IsoTimes == {Iso(t) : t \in Times}
TimeStrs == IsoTimes \cup {NotADate}
AllTimeStrs == TimeStrs \cup {Naive(1)}

\* base64(sk.sign(message)) made with the private key of key pair k
Sign(k, message) == [key |-> k, msg |-> message]
\* a signature string that base64.b64decode rejects
BadB64 == [key |-> "-", msg |-> "-"]
\* str + str; a None operand raises TypeError
Concat(parts) ==
    IF \E i \in DOMAIN parts : parts[i] = NoneStr THEN NoneStr
    ELSE IF Len(parts) = 1 THEN parts[1]
    ELSE IF Len(parts) = 2 THEN parts[1] \o parts[2]
    ELSE IF Len(parts) = 3 THEN parts[1] \o parts[2] \o parts[3]
    ELSE IF Len(parts) = 4 THEN parts[1] \o parts[2] \o parts[3] \o parts[4]
    ELSE parts[1] \o parts[2] \o parts[3] \o parts[4] \o parts[5]

\* a message of add_entry that keeps its fields apart
AddEntryMsg_delimited(f) ==
    f.data_id \o "|" \o f.user_id \o "|" \o f.description \o "|" \o f.endpoint
              \o "|" \o f.expire_time

\* the message each handler verifies the signature over
RegisterMsg(f) == f.user_id \o f.public_key \o f.expire_time
AddEntryMsg(f) == f.data_id \o f.user_id \o f.description \o f.endpoint \o f.expire_time
DeleteEntryMsg(f) == f.data_id \o f.user_id \o f.expire_time
AddDataMsg(f) == Concat(<<f.data_id, f.description, f.admin_id, f.endpoint, f.expire_time>>)
AddAuthzMsg(f) == f.data_id \o f.access_grantee_id \o f.expire_at \o f.expire_time
GetMsg(f) == f.expire_time
DeleteAuthzMsg(f) == f.data_id \o f.access_grantee_id \o f.expire_time

\* what the client signs for each operation
ClientMsg(op, req) ==
    CASE op \in {"add_key", "delete_key"} -> RegisterMsg(req)
      [] op = "add_entry" -> AddEntryMsg(req)
      [] op = "delete_entry" -> DeleteEntryMsg(req)
      [] op \in {"add_data", "delete_data"} -> AddDataMsg(req)
      [] op = "add_authz" -> AddAuthzMsg(req)
      [] op \in {"get_data", "get_authz"} -> GetMsg(req)
      [] op = "delete_authz" -> DeleteAuthzMsg(req)

\* the signatures clients attach: made over the request's own message with the
\* private keys of by, or one of the strings of other
SignedBy(K) == [by |-> K, other |-> {}]
GoodSigs == SignedBy(Keys)
SomeSigs == [by |-> Keys, other |-> {BadB64}]
AllSigs == [by |-> Keys, other |-> {BadB64, Sign("K1", "stale")}]

SigsFor(sigs, m) == {Sign(k, m) : k \in sigs.by} \cup sigs.other

\* requests of operation op: the unsigned fields with each signature attached
Signed(op, fields, sigs) ==
    UNION {{f @@ [signature |-> s] : s \in SigsFor(sigs, ClientMsg(op, f))} : f \in fields}

------------------------------------------------------------------------------
(* HTTP responses *)

Resp(s, d) == [status |-> s, detail |-> d]
Ok == Resp(200, "ok")
InternalServerError == Resp(500, "Internal Server Error")   \* an uncaught exception

NoBody == [catalog |-> {}, authz |-> {}, keys |-> {}, count |-> 0, user |-> {}]
NoReq == [path |-> "-"]

Answer(op, req, r, body) ==
    [op |-> op, req |-> req, status |-> r.status, detail |-> r.detail,
     body |-> IF r.status = 200 THEN body ELSE NoBody]

Idle == [op |-> "idle", req |-> NoReq, status |-> 0, detail |-> "-", body |-> NoBody]

\* the history of accepted create requests (reqs) and of those among them
\* accepted more than once (again): kept or not kept
NotKept == [on |-> FALSE, reqs |-> {}, again |-> {}]
Kept == [on |-> TRUE, reqs |-> {}, again |-> {}]

\* seen after the handler of op has answered r to req
Remember(op, req, r) ==
    IF seen.on /\ r = Ok
    THEN [seen EXCEPT !.reqs = @ \cup {<<op, req>>},
                      !.again = @ \cup ({<<op, req>>} \cap seen.reqs)]
    ELSE seen

------------------------------------------------------------------------------
(* Common functions *)

\* datetime.fromisoformat(s.replace("Z", "+00:00"))
fromisoformat(s) ==
    IF \E t \in Times : s = Iso(t)
    THEN [kind |-> "aware", t |-> CHOOSE t \in Times : s = Iso(t)]
    ELSE IF \E t \in Times : s = Naive(t)
    THEN [kind |-> "naive", t |-> CHOOSE t \in Times : s = Naive(t)]
    ELSE [kind |-> "error", t |-> 0]

\* vk.verify(base64.b64decode(signature_b64), message) for vk = from_pem(pem):
\* "ok", "bad" (BadSignatureError) or "error" (any other exception)
ecdsa_verify(public_key_pem, message, signature_b64) ==
    IF public_key_pem \notin Keys \/ signature_b64 = BadB64 THEN "error"
    ELSE IF signature_b64.key = public_key_pem /\ signature_b64.msg = message THEN "ok"
    ELSE "bad"

\* check_expire_time with ">=" for ">": a signature is refused in its last instant
check_expire_time_ge(expire_time_str) ==
    LET expire_dt == fromisoformat(expire_time_str) IN
    IF expire_dt.kind = "error" THEN Resp(400, "Invalid expire_time format")
    ELSE IF expire_dt.kind = "naive" THEN InternalServerError
    ELSE IF now >= expire_dt.t THEN Resp(400, "Signature expired")
    ELSE Ok

\* check_expire_time: the three services carry the same function.  Comparing
\* the aware now_dt with a naive expire_dt raises TypeError.
check_expire_time(expire_time_str) ==
    LET expire_dt == fromisoformat(expire_time_str) IN
    IF expire_dt.kind = "error" THEN Resp(400, "Invalid expire_time format")
    ELSE IF expire_dt.kind = "naive" THEN InternalServerError
    ELSE IF now > expire_dt.t THEN Resp(400, "Signature expired")
    ELSE Ok

\* the rows of a public_keys table with the user_id
rows_of(table, user_id) == {r \in BagToSet(table) : r.user_id = user_id}

\* query(PublicKey).filter_by(user_id=user_id).first() on a table, as the key of
\* the row
key_in(table, user_id) ==
    IF rows_of(table, user_id) = {} THEN NoKey
    ELSE (CHOOSE r \in rows_of(table, user_id) : TRUE).public_key

\* db.query(PublicKey).filter_by(user_id=user_id).first()
first_key(user_id) == key_in(public_keys, user_id)

\* db.add(PublicKey(user_id=..., public_key=...)); db.commit()
insert_key(user_id, public_key) ==
    public_keys (+) SetToBag({[user_id |-> user_id, public_key |-> public_key]})

\* a delete that removes no row
delete_rows_none(user_id) == public_keys

\* db.delete(key); db.commit(): DELETE ... WHERE user_id = key.user_id
delete_rows(user_id) ==
    [r \in {x \in BagToSet(public_keys) : x.user_id # user_id} |-> public_keys[r]]

\* the number of rows of table public_keys with the user_id
row_count(user_id) == BagCardinality(public_keys) - BagCardinality(delete_rows(user_id))

\* a verification that accepts a signature over the message made with any key
pkr_verify_signature_any_key(public_key_pem, message, signature_b64) ==
    signature_b64 # BadB64 /\ signature_b64.msg = message

\* public-key-registry verify_signature: every failure is False
pkr_verify_signature(public_key_pem, message, signature_b64) ==
    ecdsa_verify(public_key_pem, message, signature_b64) = "ok"

\* federated-catalog / local-catalog-authz get_public_key: the HTTPException(403)
\* raised for a non-200 answer is caught by the function's own "except Exception"
\* as is the exception of a request that does not get through
get_public_key(user_id) ==
    IF ~directory_up
    THEN [resp |-> Resp(500, "Failed to fetch public key: connection error"), key |-> NoKey]
    ELSE IF first_key(user_id) = NoKey
    THEN [resp |-> Resp(500, "Failed to fetch public key: 403: Public key not found."),
          key |-> NoKey]
    ELSE [resp |-> Ok, key |-> first_key(user_id)]

\* verify_signature that swallows BadSignatureError
verify_signature_lenient(public_key_pem, message, signature_b64) ==
    LET v == ecdsa_verify(public_key_pem, message, signature_b64) IN
    IF message = NoneStr THEN InternalServerError
    ELSE IF v \in {"ok", "bad"} THEN Ok
    ELSE Resp(400, "Signature verification error")

\* federated-catalog / local-catalog-authz verify_signature
verify_signature(public_key_pem, message, signature_b64) ==
    LET v == ecdsa_verify(public_key_pem, message, signature_b64) IN
    IF message = NoneStr THEN InternalServerError
    ELSE IF v = "ok" THEN Ok
    ELSE IF v = "bad" THEN Resp(403, "Invalid signature.")
    ELSE Resp(400, "Signature verification error")

------------------------------------------------------------------------------
(* public-key-registry *)

RegisterRequests(U, K, E, sigs) ==
    Signed("add_key", {[user_id |-> u, public_key |-> k, expire_time |-> e] :
                          <<u, k, e>> \in U \X K \X E}, sigs)

\* add_key that refuses a public key stored under another user_id
add_key_response_unique_key(req) ==
    LET msg == req.user_id \o req.public_key \o req.expire_time
        exp == check_expire_time(req.expire_time)
    IN  IF exp # Ok THEN exp
        ELSE IF ~pkr_verify_signature(req.public_key, msg, req.signature)
        THEN Resp(400, "Invalid signature")
        ELSE IF first_key(req.user_id) # NoKey
        THEN Resp(409, "UserID already registered")
        ELSE IF \E r \in BagToSet(public_keys) : r.public_key = req.public_key
        THEN Resp(409, "Public key already registered")
        ELSE Ok

add_key_response(req) ==
    LET msg == req.user_id \o req.public_key \o req.expire_time
        exp == check_expire_time(req.expire_time)
    IN  IF exp # Ok THEN exp
        ELSE IF ~pkr_verify_signature(req.public_key, msg, req.signature)
        THEN Resp(400, "Invalid signature")
        ELSE IF first_key(req.user_id) # NoKey
        THEN Resp(409, "UserID already registered")
        ELSE Ok

add_key(req) ==
    LET r == add_key_response(req) IN
    /\ last = Idle
    /\ public_keys' = IF r = Ok THEN insert_key(req.user_id, req.public_key)
                      ELSE public_keys
    /\ last' = Answer("add_key", req, r, NoBody)
    /\ seen' = Remember("add_key", req, r)
    /\ UNCHANGED <<fc_vars, lc_vars, now, directory_up, cn_vars, inflight>>

get_key(user_id) ==
    LET r == IF first_key(user_id) = NoKey THEN Resp(404, "Key not found") ELSE Ok IN
    /\ last = Idle
    /\ last' = Answer("get_key", [user_id |-> user_id], r,
                      [NoBody EXCEPT !.keys = {[user_id |-> user_id,
                                                public_key |-> first_key(user_id)]}])
    /\ UNCHANGED <<kd_vars, fc_vars, lc_vars, now, directory_up, cn_vars, seen, inflight>>

delete_key_response(req) ==
    LET msg == req.user_id \o req.public_key \o req.expire_time
        exp == check_expire_time(req.expire_time)
    IN  IF exp # Ok THEN exp
        ELSE IF ~pkr_verify_signature(req.public_key, msg, req.signature)
        THEN Resp(400, "Invalid signature")
        ELSE IF first_key(req.user_id) = NoKey
        THEN Resp(404, "Key not found")
        ELSE Ok

\* delete_key that also removes what the user_id holds in the catalogs
delete_key_purges_records(req) ==
    LET r == delete_key_response(req)
        gone == {d \in DataIds : local_catalog[d].admin_id = req.user_id}
    IN
    /\ last = Idle
    /\ public_keys' = IF r = Ok THEN delete_rows(req.user_id) ELSE public_keys
    /\ federated_catalog' =
          IF r = Ok
          THEN [d \in DataIds |-> IF federated_catalog[d].user_id = req.user_id
                                  THEN NoEntry ELSE federated_catalog[d]]
          ELSE federated_catalog
    /\ local_catalog' =
          IF r = Ok THEN [d \in DataIds |-> IF d \in gone THEN NoData ELSE local_catalog[d]]
          ELSE local_catalog
    /\ local_authorization' =
          IF r = Ok
          THEN [k \in DOMAIN local_authorization |->
                   IF k[1] \in gone THEN NoAuthZ ELSE local_authorization[k]]
          ELSE local_authorization
    /\ last' = Answer("delete_key", req, r, NoBody)
    /\ UNCHANGED <<published_under, administered_under, cascaded, now, directory_up,
                   cn_vars, seen, inflight>>

delete_key(req) ==
    LET r == delete_key_response(req) IN
    /\ last = Idle
    /\ public_keys' = IF r = Ok THEN delete_rows(req.user_id) ELSE public_keys
    /\ last' = Answer("delete_key", req, r, NoBody)
    /\ UNCHANGED <<fc_vars, lc_vars, now, directory_up, cn_vars, seen, inflight>>

list_keys ==
    /\ last = Idle
    /\ last' = Answer("list_keys", NoReq, Ok,
                      [NoBody EXCEPT !.keys = BagToSet(public_keys)])
    /\ UNCHANGED <<kd_vars, fc_vars, lc_vars, now, directory_up, cn_vars, seen, inflight>>

delete_all_keys ==
    /\ last = Idle
    /\ public_keys' = EmptyBag
    /\ last' = Answer("delete_all_keys", NoReq, Ok, NoBody)
    /\ UNCHANGED <<fc_vars, lc_vars, now, directory_up, cn_vars, seen, inflight>>

------------------------------------------------------------------------------
(* federated-catalog *)

CatalogItems(D, U, De, En, E, sigs) ==
    Signed("add_entry",
           {[data_id |-> d, user_id |-> u, description |-> de, endpoint |-> en,
             expire_time |-> e] : <<d, u, de, en, e>> \in D \X U \X De \X En \X E},
           sigs)

DeleteEntryRequests(D, U, E, sigs) ==
    Signed("delete_entry",
           {[data_id |-> d, user_id |-> u, expire_time |-> e] : <<d, u, e>> \in D \X U \X E},
           sigs)

FcRow(d) == [data_id |-> d, user_id |-> federated_catalog[d].user_id,
             description |-> federated_catalog[d].description,
             endpoint |-> federated_catalog[d].endpoint]

\* add_entry without the "DataID already exists" check
add_entry_response_no_dup(item) ==
    LET fetched == get_public_key(item.user_id)
        message == item.data_id \o item.user_id \o item.description \o item.endpoint
                   \o item.expire_time
        exp == check_expire_time(item.expire_time)
        ver == verify_signature(fetched.key, message, item.signature)
    IN  IF fetched.resp # Ok THEN fetched.resp
        ELSE IF exp # Ok THEN exp
        ELSE ver

\* add_entry that refuses a request it has accepted before
add_entry_response_once(item) ==
    LET fetched == get_public_key(item.user_id)
        message == AddEntryMsg(item)
        exp == check_expire_time(item.expire_time)
        ver == verify_signature(fetched.key, message, item.signature)
    IN  IF fetched.resp # Ok THEN fetched.resp
        ELSE IF exp # Ok THEN exp
        ELSE IF ver # Ok THEN ver
        ELSE IF <<"add_entry", item>> \in seen.reqs THEN Resp(400, "Request already used.")
        ELSE IF federated_catalog[item.data_id] # NoEntry
        THEN Resp(400, "DataID already exists.")
        ELSE Ok

add_entry_response(item) ==
    LET fetched == get_public_key(item.user_id)
        message == AddEntryMsg(item)
        exp == check_expire_time(item.expire_time)
        ver == verify_signature(fetched.key, message, item.signature)
    IN  IF fetched.resp # Ok THEN fetched.resp
        ELSE IF exp # Ok THEN exp
        ELSE IF ver # Ok THEN ver
        ELSE IF federated_catalog[item.data_id] # NoEntry
        THEN Resp(400, "DataID already exists.")
        ELSE Ok

\* add_entry that writes over the row of a data_id that is there
add_entry_overwrites(item) ==
    LET r == add_entry_response_no_dup(item) IN
    /\ last = Idle
    /\ IF r = Ok
       THEN /\ federated_catalog' =
                  [federated_catalog EXCEPT ![item.data_id] =
                      [user_id |-> item.user_id, description |-> item.description,
                       endpoint |-> item.endpoint]]
            /\ published_under' =
                  [published_under EXCEPT ![item.data_id] = first_key(item.user_id)]
       ELSE UNCHANGED fc_vars
    /\ last' = Answer("add_entry", item, r, NoBody)
    /\ UNCHANGED <<kd_vars, lc_vars, now, directory_up, cn_vars, seen, inflight>>

add_entry(item) ==
    LET r == add_entry_response(item) IN
    /\ last = Idle
    /\ IF r = Ok
       THEN /\ federated_catalog' =
                  [federated_catalog EXCEPT ![item.data_id] =
                      [user_id |-> item.user_id, description |-> item.description,
                       endpoint |-> item.endpoint]]
            /\ published_under' =
                  [published_under EXCEPT ![item.data_id] = first_key(item.user_id)]
       ELSE UNCHANGED fc_vars
    /\ last' = Answer("add_entry", item, r, NoBody)
    /\ seen' = Remember("add_entry", item, r)
    /\ UNCHANGED <<kd_vars, lc_vars, now, directory_up, cn_vars, inflight>>

\* delete_entry without the owner check
delete_entry_response_no_owner(req) ==
    LET fetched == get_public_key(req.user_id)
        message == req.data_id \o req.user_id \o req.expire_time
        exp == check_expire_time(req.expire_time)
        ver == verify_signature(fetched.key, message, req.signature)
    IN  IF fetched.resp # Ok THEN fetched.resp
        ELSE IF exp # Ok THEN exp
        ELSE IF ver # Ok THEN ver
        ELSE IF federated_catalog[req.data_id] = NoEntry THEN Resp(404, "DataID not found.")
        ELSE Ok

delete_entry_response(req) ==
    LET fetched == get_public_key(req.user_id)
        message == req.data_id \o req.user_id \o req.expire_time
        exp == check_expire_time(req.expire_time)
        ver == verify_signature(fetched.key, message, req.signature)
        entry == federated_catalog[req.data_id]
    IN  IF fetched.resp # Ok THEN fetched.resp
        ELSE IF exp # Ok THEN exp
        ELSE IF ver # Ok THEN ver
        ELSE IF entry = NoEntry THEN Resp(404, "DataID not found.")
        ELSE IF entry.user_id # req.user_id THEN Resp(403, "User not authorized.")
        ELSE Ok

\* delete_entry that empties the table
delete_entry_whole_table(req) ==
    LET r == delete_entry_response(req) IN
    /\ last = Idle
    /\ IF r = Ok
       THEN /\ federated_catalog' = [d \in DataIds |-> NoEntry]
            /\ published_under' = [d \in DataIds |-> NoKey]
       ELSE UNCHANGED fc_vars
    /\ last' = Answer("delete_entry", req, r, NoBody)
    /\ UNCHANGED <<kd_vars, lc_vars, now, directory_up, cn_vars, seen, inflight>>

delete_entry(req) ==
    LET r == delete_entry_response(req) IN
    /\ last = Idle
    /\ IF r = Ok
       THEN /\ federated_catalog' = [federated_catalog EXCEPT ![req.data_id] = NoEntry]
            /\ published_under' = [published_under EXCEPT ![req.data_id] = NoKey]
       ELSE UNCHANGED fc_vars
    /\ last' = Answer("delete_entry", req, r, NoBody)
    /\ UNCHANGED <<kd_vars, lc_vars, now, directory_up, cn_vars, seen, inflight>>

get_by_dataid(data_id) ==
    LET r == IF federated_catalog[data_id] = NoEntry THEN Resp(404, "DataID not found.")
             ELSE Ok IN
    /\ last = Idle
    /\ last' = Answer("get_by_dataid", [data_id |-> data_id], r,
                      [NoBody EXCEPT !.catalog = {FcRow(data_id)}])
    /\ UNCHANGED <<kd_vars, fc_vars, lc_vars, now, directory_up, cn_vars, seen, inflight>>

fc_reset_all ==
    /\ last = Idle
    /\ federated_catalog' = [d \in DataIds |-> NoEntry]
    /\ published_under' = [d \in DataIds |-> NoKey]
    /\ last' = Answer("fc_reset_all", NoReq, Ok, NoBody)
    /\ UNCHANGED <<kd_vars, lc_vars, now, directory_up, cn_vars, seen, inflight>>

\* the data_ids of the rows whose user_id is user_id
results_of(user_id) ==
    {d \in DataIds : federated_catalog[d] # NoEntry /\ federated_catalog[d].user_id = user_id}

\* a search that does not filter by user_id
search_by_user_id_unfiltered(user_id) ==
    LET results == {d \in DataIds : federated_catalog[d] # NoEntry} IN
    /\ last = Idle
    /\ last' = Answer("search_by_user_id", [user_id |-> user_id], Ok,
                      [NoBody EXCEPT !.catalog = {FcRow(d) : d \in results},
                                     !.count = Cardinality(results)])
    /\ UNCHANGED <<kd_vars, fc_vars, lc_vars, now, directory_up, cn_vars, seen, inflight>>

search_by_user_id(user_id) ==
    /\ last = Idle
    /\ last' = Answer("search_by_user_id", [user_id |-> user_id], Ok,
                      [NoBody EXCEPT !.catalog = {FcRow(d) : d \in results_of(user_id)},
                                     !.count = Cardinality(results_of(user_id))])
    /\ UNCHANGED <<kd_vars, fc_vars, lc_vars, now, directory_up, cn_vars, seen, inflight>>

------------------------------------------------------------------------------
(* local-catalog-authz *)

\* DataItem, and SignedDeleteCatalogRequest with the data_id of its path
DataItems(D, De, U, En, E, sigs) ==
    Signed("add_data",
           {[data_id |-> d, description |-> de, admin_id |-> u, endpoint |-> en,
             expire_time |-> e] : <<d, de, u, en, e>> \in D \X De \X U \X En \X E},
           sigs)

\* the request to the federated catalog with the field values of a DataItem
AsCatalogItem(item) ==
    [data_id |-> item.data_id, user_id |-> item.admin_id, description |-> item.description,
     endpoint |-> item.endpoint, expire_time |-> item.expire_time,
     signature |-> item.signature]

\* DataItems whose signature is the one the client made for the federated
\* catalog's /add with the same field values
CatalogSignedDataItems(D, De, U, En, E, K) ==
    {[data_id |-> d, description |-> de, admin_id |-> u, endpoint |-> en, expire_time |-> e,
      signature |-> Sign(k, AddEntryMsg([data_id |-> d, user_id |-> u, description |-> de,
                                         endpoint |-> en, expire_time |-> e]))] :
        <<d, de, u, en, e, k>> \in D \X De \X U \X En \X E \X K}

AuthZItems(D, G, Ea, E, sigs) ==
    Signed("add_authz",
           {[data_id |-> d, access_grantee_id |-> g, expire_at |-> ea, expire_time |-> e] :
               <<d, g, ea, e>> \in D \X G \X Ea \X E},
           sigs)

\* SignedGetRequest with the data_id of its path
SignedGetRequests(D, U, E, sigs) ==
    Signed("get_data",
           {[data_id |-> d, admin_id |-> u, expire_time |-> e] : <<d, u, e>> \in D \X U \X E},
           sigs)

\* SignedDeleteAuthZRequest with the data_id and access_grantee_id of its path
DeleteAuthZRequests(D, G, E, sigs) ==
    Signed("delete_authz",
           {[data_id |-> d, access_grantee_id |-> g, expire_time |-> e] :
               <<d, g, e>> \in D \X G \X E},
           sigs)

LcRow(d) == [data_id |-> d, description |-> local_catalog[d].description,
             admin_id |-> local_catalog[d].admin_id, endpoint |-> local_catalog[d].endpoint]

AuthzRow(d, g) == [data_id |-> d, access_grantee_id |-> g,
                   expire_at |-> local_authorization[<<d, g>>]]

\* the grantees with a row in local_authorization for data_id d
GrantsOf(d) == {g \in Ids : local_authorization[<<d, g>>] # NoAuthZ}

\* x or ""
OrEmpty(x) == IF x = NoneStr THEN "" ELSE x

\* the 404 raised inside the try block is caught by "except Exception" and becomes a 500
get_admin_id_by_data_id(data_id) ==
    IF local_catalog[data_id] = NoData
    THEN [resp |-> Resp(500, "Failed to retrieve admin_id"), admin_id |-> "-"]
    ELSE [resp |-> Ok, admin_id |-> local_catalog[data_id].admin_id]

\* add_data that builds its message in the order of the federated catalog
add_data_response_catalog_order(item) ==
    LET exp == check_expire_time(item.expire_time)
        fetched == get_public_key(item.admin_id)
        msg == Concat(<<item.data_id, item.admin_id, item.description, item.endpoint,
                        item.expire_time>>)
        ver == verify_signature(fetched.key, msg, item.signature)
    IN  IF exp # Ok THEN exp
        ELSE IF fetched.resp # Ok THEN fetched.resp
        ELSE IF ver # Ok THEN ver
        ELSE IF local_catalog[item.data_id] # NoData
        THEN Resp(400, "DataID already exists.")
        ELSE Ok

add_data_response(item) ==
    LET exp == check_expire_time(item.expire_time)
        fetched == get_public_key(item.admin_id)
        msg == Concat(<<item.data_id, item.description, item.admin_id, item.endpoint,
                        item.expire_time>>)
        ver == verify_signature(fetched.key, msg, item.signature)
    IN  IF exp # Ok THEN exp
        ELSE IF fetched.resp # Ok THEN fetched.resp
        ELSE IF ver # Ok THEN ver
        ELSE IF local_catalog[item.data_id] # NoData
        THEN Resp(400, "DataID already exists.")
        ELSE Ok

add_data(item) ==
    LET r == add_data_response(item) IN
    /\ last = Idle
    /\ IF r = Ok
       THEN /\ local_catalog' =
                  [local_catalog EXCEPT ![item.data_id] =
                      [description |-> item.description, admin_id |-> item.admin_id,
                       endpoint |-> item.endpoint]]
            /\ administered_under' =
                  [administered_under EXCEPT ![item.data_id] = first_key(item.admin_id)]
            /\ UNCHANGED <<local_authorization, cascaded>>
       ELSE UNCHANGED lc_vars
    /\ last' = Answer("add_data", item, r, NoBody)
    /\ UNCHANGED <<kd_vars, fc_vars, now, directory_up, cn_vars, seen, inflight>>

add_authz_response(item) ==
    LET exp == check_expire_time(item.expire_time)
        admin == get_admin_id_by_data_id(item.data_id)
        fetched == get_public_key(admin.admin_id)
        msg == item.data_id \o item.access_grantee_id \o item.expire_at \o item.expire_time
        ver == verify_signature(fetched.key, msg, item.signature)
        expire_dt == fromisoformat(item.expire_at)
    IN  IF exp # Ok THEN exp
        ELSE IF admin.resp # Ok THEN admin.resp
        ELSE IF fetched.resp # Ok THEN fetched.resp
        ELSE IF ver # Ok THEN ver
        ELSE IF local_catalog[item.data_id] = NoData THEN Resp(404, "DataID not found.")
        ELSE IF local_authorization[<<item.data_id, item.access_grantee_id>>] # NoAuthZ
        THEN Resp(400, "AuthZ already exists.")
        ELSE IF expire_dt.kind = "error" THEN Resp(400, "Invalid expire_at format")
        ELSE Ok

add_authz(item) ==
    LET r == add_authz_response(item) IN
    /\ last = Idle
    /\ local_authorization' =
          IF r = Ok
          THEN [local_authorization EXCEPT ![<<item.data_id, item.access_grantee_id>>] =
                   fromisoformat(item.expire_at).t]
          ELSE local_authorization
    /\ last' = Answer("add_authz", item, r, NoBody)
    /\ seen' = Remember("add_authz", item, r)
    /\ UNCHANGED <<kd_vars, fc_vars, local_catalog, administered_under, cascaded, now, directory_up, cn_vars, inflight>>

\* signed_get_response that verifies the signature over data_id and expire_time
signed_get_response_bound(req) ==
    LET entry == local_catalog[req.data_id]
        exp == check_expire_time(req.expire_time)
        fetched == get_public_key(req.admin_id)
        ver == verify_signature(fetched.key, req.data_id \o req.expire_time, req.signature)
    IN  IF entry = NoData THEN Resp(404, "DataID not found.")
        ELSE IF req.admin_id # entry.admin_id THEN Resp(403, "User not authorized.")
        ELSE IF exp # Ok THEN exp
        ELSE IF fetched.resp # Ok THEN fetched.resp
        ELSE ver

\* the checks get_data and get_authz share
signed_get_response(req) ==
    LET entry == local_catalog[req.data_id]
        exp == check_expire_time(req.expire_time)
        fetched == get_public_key(req.admin_id)
        ver == verify_signature(fetched.key, req.expire_time, req.signature)
    IN  IF entry = NoData THEN Resp(404, "DataID not found.")
        ELSE IF req.admin_id # entry.admin_id THEN Resp(403, "User not authorized.")
        ELSE IF exp # Ok THEN exp
        ELSE IF fetched.resp # Ok THEN fetched.resp
        ELSE ver

\* get_data that answers the row the way debug_all lists it, without description
get_data_no_description(req) ==
    LET r == signed_get_response(req) IN
    /\ last = Idle
    /\ last' = Answer("get_data", req, r,
                      [NoBody EXCEPT !.catalog =
                          {[LcRow(req.data_id) EXCEPT !.description = NoneStr]}])
    /\ UNCHANGED <<kd_vars, fc_vars, lc_vars, now, directory_up, cn_vars, seen, inflight>>

get_data(req) ==
    LET r == signed_get_response(req) IN
    /\ last = Idle
    /\ last' = Answer("get_data", req, r, [NoBody EXCEPT !.catalog = {LcRow(req.data_id)}])
    /\ UNCHANGED <<kd_vars, fc_vars, lc_vars, now, directory_up, cn_vars, seen, inflight>>

\* get_authz with ">=" for ">" in the filter on expire_at
get_authz_ge(req) ==
    LET r == signed_get_response(req)
        results == {g \in Ids : /\ local_authorization[<<req.data_id, g>>] # NoAuthZ
                                /\ local_authorization[<<req.data_id, g>>] >= now}
    IN
    /\ last = Idle
    /\ last' = Answer("get_authz", req, r,
                      [NoBody EXCEPT !.authz = {AuthzRow(req.data_id, g) : g \in results}])
    /\ UNCHANGED <<kd_vars, fc_vars, lc_vars, now, directory_up, cn_vars, seen, inflight>>

get_authz(req) ==
    LET r == signed_get_response(req)
        results == {g \in Ids : /\ local_authorization[<<req.data_id, g>>] # NoAuthZ
                                /\ local_authorization[<<req.data_id, g>>] > now}
    IN
    /\ last = Idle
    /\ last' = Answer("get_authz", req, r,
                      [NoBody EXCEPT !.authz = {AuthzRow(req.data_id, g) : g \in results}])
    /\ UNCHANGED <<kd_vars, fc_vars, lc_vars, now, directory_up, cn_vars, seen, inflight>>

delete_data_response(req) ==
    LET entry == local_catalog[req.data_id]
        exp == check_expire_time(req.expire_time)
        fetched == get_public_key(req.admin_id)
        msg == Concat(<<req.data_id, req.description, req.admin_id, req.endpoint,
                        req.expire_time>>)
        ver == verify_signature(fetched.key, msg, req.signature)
    IN  IF entry = NoData THEN Resp(404, "DataID not found.")
        ELSE IF \/ req.admin_id # entry.admin_id
                \/ req.endpoint # entry.endpoint
                \/ OrEmpty(req.description) # OrEmpty(entry.description)
        THEN Resp(400, "Request data does not match stored record.")
        ELSE IF exp # Ok THEN exp
        ELSE IF fetched.resp # Ok THEN fetched.resp
        ELSE ver

\* delete_data that deletes the authorizations of a stored entry before its
\* checks have passed
delete_data_grants_first(req) ==
    LET r == delete_data_response(req) IN
    /\ last = Idle
    /\ local_authorization' =
          IF local_catalog[req.data_id] # NoData
          THEN [p \in DataIds \X Ids |->
                   IF p[1] = req.data_id THEN NoAuthZ ELSE local_authorization[p]]
          ELSE local_authorization
    /\ cascaded' = IF r = Ok
                   THEN [cascaded EXCEPT ![req.data_id] = Cardinality(GrantsOf(req.data_id))]
                   ELSE cascaded
    /\ local_catalog' = IF r = Ok THEN [local_catalog EXCEPT ![req.data_id] = NoData]
                        ELSE local_catalog
    /\ administered_under' = IF r = Ok THEN [administered_under EXCEPT ![req.data_id] = NoKey]
                             ELSE administered_under
    /\ last' = Answer("delete_data", req, r, NoBody)
    /\ UNCHANGED <<kd_vars, fc_vars, now, directory_up, cn_vars, seen, inflight>>

\* delete_data that deletes the catalog row alone
delete_data_no_cascade(req) ==
    LET r == delete_data_response(req) IN
    /\ last = Idle
    /\ IF r = Ok
       THEN /\ local_catalog' = [local_catalog EXCEPT ![req.data_id] = NoData]
            /\ administered_under' = [administered_under EXCEPT ![req.data_id] = NoKey]
            /\ cascaded' = [cascaded EXCEPT ![req.data_id] = Cardinality(GrantsOf(req.data_id))]
            /\ UNCHANGED local_authorization
       ELSE UNCHANGED lc_vars
    /\ last' = Answer("delete_data", req, r, NoBody)
    /\ UNCHANGED <<kd_vars, fc_vars, now, directory_up, cn_vars, seen, inflight>>

\* db.delete(entry) deletes the authorizations of the entry with it
\* (relationship cascade="all, delete-orphan", ondelete="CASCADE")
delete_data(req) ==
    LET r == delete_data_response(req) IN
    /\ last = Idle
    /\ IF r = Ok
       THEN /\ local_catalog' = [local_catalog EXCEPT ![req.data_id] = NoData]
            /\ local_authorization' =
                  [p \in DataIds \X Ids |->
                      IF p[1] = req.data_id THEN NoAuthZ ELSE local_authorization[p]]
            /\ administered_under' = [administered_under EXCEPT ![req.data_id] = NoKey]
            /\ cascaded' = [cascaded EXCEPT ![req.data_id] = Cardinality(GrantsOf(req.data_id))]
       ELSE UNCHANGED lc_vars
    /\ last' = Answer("delete_data", req, r, NoBody)
    /\ UNCHANGED <<kd_vars, fc_vars, now, directory_up, cn_vars, seen, inflight>>

delete_authz_response(req) ==
    LET exp == check_expire_time(req.expire_time)
        admin == get_admin_id_by_data_id(req.data_id)
        fetched == get_public_key(admin.admin_id)
        msg == req.data_id \o req.access_grantee_id \o req.expire_time
        ver == verify_signature(fetched.key, msg, req.signature)
    IN  IF local_authorization[<<req.data_id, req.access_grantee_id>>] = NoAuthZ
        THEN Resp(404, "AuthZ not found.")
        ELSE IF exp # Ok THEN exp
        ELSE IF admin.resp # Ok THEN admin.resp
        ELSE IF fetched.resp # Ok THEN fetched.resp
        ELSE ver

\* delete_authz that deletes every authorization of the data_id
delete_authz_whole_data(req) ==
    LET r == delete_authz_response(req) IN
    /\ last = Idle
    /\ local_authorization' =
          IF r = Ok
          THEN [p \in DataIds \X Ids |->
                   IF p[1] = req.data_id THEN NoAuthZ ELSE local_authorization[p]]
          ELSE local_authorization
    /\ last' = Answer("delete_authz", req, r, NoBody)
    /\ UNCHANGED <<kd_vars, fc_vars, local_catalog, administered_under, cascaded, now, directory_up, cn_vars, seen, inflight>>

delete_authz(req) ==
    LET r == delete_authz_response(req) IN
    /\ last = Idle
    /\ local_authorization' =
          IF r = Ok
          THEN [local_authorization EXCEPT ![<<req.data_id, req.access_grantee_id>>] = NoAuthZ]
          ELSE local_authorization
    /\ last' = Answer("delete_authz", req, r, NoBody)
    /\ UNCHANGED <<kd_vars, fc_vars, local_catalog, administered_under, cascaded, now, directory_up, cn_vars, seen, inflight>>

\* unauthenticated; the catalog rows are listed without their description
debug_all ==
    /\ last = Idle
    /\ last' = Answer("debug_all", NoReq, Ok,
                      [NoBody EXCEPT
                          !.catalog = {[data_id |-> d, admin_id |-> local_catalog[d].admin_id,
                                        endpoint |-> local_catalog[d].endpoint] :
                                          d \in {e \in DataIds : local_catalog[e] # NoData}},
                          !.authz = {AuthzRow(p[1], p[2]) :
                                        p \in {q \in DataIds \X Ids :
                                                  local_authorization[q] # NoAuthZ}}])
    /\ UNCHANGED <<kd_vars, fc_vars, lc_vars, now, directory_up, cn_vars, seen, inflight>>

lc_reset_all ==
    /\ last = Idle
    /\ local_authorization' = [p \in DataIds \X Ids |-> NoAuthZ]
    /\ local_catalog' = [d \in DataIds |-> NoData]
    /\ administered_under' = [d \in DataIds |-> NoKey]
    /\ UNCHANGED cascaded
    /\ last' = Answer("lc_reset_all", NoReq, Ok, NoBody)
    /\ UNCHANGED <<kd_vars, fc_vars, now, directory_up, cn_vars, seen, inflight>>

------------------------------------------------------------------------------
(* The network between the catalogs and the registry, the clock, and the      *)
(* response going back                                                        *)

Outage ==
    /\ last = Idle
    /\ directory_up
    /\ directory_up' = FALSE
    /\ UNCHANGED <<kd_vars, fc_vars, lc_vars, now, last, inflight, cn_vars, seen>>

Recover ==
    /\ last = Idle
    /\ ~directory_up
    /\ directory_up' = TRUE
    /\ UNCHANGED <<kd_vars, fc_vars, lc_vars, now, last, inflight, cn_vars, seen>>

Tick ==
    /\ last = Idle
    /\ now < MaxTime
    /\ now' = now + 1
    /\ UNCHANGED <<kd_vars, fc_vars, lc_vars, last, directory_up, cn_vars, seen, inflight>>

Reply ==
    /\ last # Idle
    /\ last' = Idle
    /\ UNCHANGED <<kd_vars, fc_vars, lc_vars, now, directory_up, cn_vars, seen, inflight>>

------------------------------------------------------------------------------
(* connector *)

\* iso_now_plus(5): a time after now, within the clock's range
iso_now_plus == Iso(IF now < MaxTime THEN now + 1 ELSE MaxTime)

\* the request register_user posts to the registry's /add for the key pair
\* SigningKey.generate has produced
registry_add_request(user_id, key_pair) ==
    LET fields == [user_id |-> user_id, public_key |-> key_pair, expire_time |-> iso_now_plus]
    IN  fields @@ [signature |-> Sign(key_pair, RegisterMsg(fields))]

\* verify_hashed_password on the basic-auth credentials
verify_hashed_password(username, password) ==
    IF users[username] = NoUser THEN Resp(401, "User not found")
    ELSE IF users[username].password_hash # password THEN Resp(401, "Invalid password hash")
    ELSE Ok

\* register_user: the registry's answer is printed and not looked at; a
\* registry that cannot be reached makes requests.post raise
register_user(req, key_pair) ==
    LET reg == registry_add_request(req.user_id, key_pair)
        res == add_key_response(reg)
    IN  /\ last = Idle
        /\ IF users[req.user_id] # NoUser
           THEN /\ last' = Answer("register_user", req, Resp(409, "User already exists"), NoBody)
                /\ UNCHANGED <<kd_vars, cn_vars, seen>>
           ELSE IF ~directory_up
           THEN /\ last' = Answer("register_user", req, InternalServerError, NoBody)
                /\ UNCHANGED <<kd_vars, cn_vars, seen>>
           ELSE /\ public_keys' = IF res = Ok THEN insert_key(req.user_id, key_pair)
                                  ELSE public_keys
                /\ key_files' = [key_files EXCEPT ![req.user_id] = key_pair]
                /\ users' = [users EXCEPT ![req.user_id] =
                                [password_hash |-> req.password_hash, public_key |-> key_pair]]
                /\ seen' = Remember("add_key", reg, res)
                /\ last' = Answer("register_user", req, Ok, NoBody)
        /\ UNCHANGED <<fc_vars, lc_vars, now, directory_up, inflight>>

login_user(req) ==
    LET r == IF users[req.user_id] = NoUser THEN Resp(404, "User not found")
             ELSE IF req.password_hash = users[req.user_id].password_hash THEN Ok
             ELSE Resp(401, "Invalid password")
    IN  /\ last = Idle
        /\ last' = Answer("login_user", req, r, NoBody)
        /\ UNCHANGED <<kd_vars, fc_vars, lc_vars, now, directory_up, cn_vars, seen, inflight>>

\* get_user: the file of the user_id of the path, for any caller that
\* verify_hashed_password lets through
get_user(user_id, username, password) ==
    LET auth == verify_hashed_password(username, password)
        r == IF auth # Ok THEN auth
             ELSE IF users[user_id] = NoUser THEN Resp(404, "User not found")
             ELSE Ok
    IN  /\ last = Idle
        /\ last' = Answer("get_user",
                          [user_id |-> user_id, username |-> username, password |-> password], r,
                          [NoBody EXCEPT !.user = {[user_id |-> user_id] @@ users[user_id]}])
        /\ UNCHANGED <<kd_vars, fc_vars, lc_vars, now, directory_up, cn_vars, seen, inflight>>

------------------------------------------------------------------------------
(* Concurrent create handlers: each worker runs one handler, whose checks (up  *)
(* to the SELECT for an existing row) and whose db.add / db.commit are two     *)
(* steps that other workers' steps may come between.                           *)

Workers == {"w1", "w2"}

NoSession == [op |-> "idle", req |-> NoReq, pc |-> "free", selected |-> FALSE,
              status |-> 0, detail |-> "-"]

\* the handler has run its checks, the SELECT included, and they answered r
Select(w, op, req, r) ==
    /\ inflight[w] = NoSession
    /\ inflight' = [inflight EXCEPT ![w] =
                       [op |-> op, req |-> req, pc |-> IF r = Ok THEN "commit" ELSE "done",
                        selected |-> (r = Ok), status |-> r.status, detail |-> r.detail]]
    /\ UNCHANGED <<kd_vars, fc_vars, lc_vars, now, directory_up, cn_vars, seen, last>>

\* db.commit() has answered r
Committed(w, r) ==
    inflight' = [inflight EXCEPT ![w] =
                    [@ EXCEPT !.pc = "done", !.status = r.status, !.detail = r.detail]]

add_key_select(w, req) == Select(w, "add_key", req, add_key_response(req))

\* add_key_commit on a table without the primary key
add_key_commit_no_pk(w) ==
    LET req == inflight[w].req IN
    /\ inflight[w].op = "add_key"
    /\ inflight[w].pc = "commit"
    /\ Committed(w, Ok)
    /\ public_keys' = insert_key(req.user_id, req.public_key)
    /\ UNCHANGED <<fc_vars, lc_vars, now, directory_up, cn_vars, seen, last>>

\* the INSERT of a user_id that is there by now violates the primary key: the
\* IntegrityError is not caught
add_key_commit(w) ==
    LET req == inflight[w].req IN
    /\ inflight[w].op = "add_key"
    /\ inflight[w].pc = "commit"
    /\ IF first_key(req.user_id) # NoKey
       THEN Committed(w, InternalServerError) /\ UNCHANGED kd_vars
       ELSE /\ Committed(w, Ok)
            /\ public_keys' = insert_key(req.user_id, req.public_key)
    /\ UNCHANGED <<fc_vars, lc_vars, now, directory_up, cn_vars, seen, last>>

delete_key_select(w, req) == Select(w, "delete_key", req, delete_key_response(req))

\* DELETE ... WHERE user_id = key.user_id: a row deleted by now matches nothing
\* (StaleDataError, not caught)
delete_key_commit(w) ==
    LET req == inflight[w].req IN
    /\ inflight[w].op = "delete_key"
    /\ inflight[w].pc = "commit"
    /\ IF first_key(req.user_id) = NoKey
       THEN Committed(w, InternalServerError) /\ UNCHANGED kd_vars
       ELSE /\ Committed(w, Ok)
            /\ public_keys' = delete_rows(req.user_id)
    /\ UNCHANGED <<fc_vars, lc_vars, now, directory_up, cn_vars, seen, last>>

add_entry_select(w, item) == Select(w, "add_entry", item, add_entry_response(item))

add_entry_commit(w) ==
    LET item == inflight[w].req IN
    /\ inflight[w].op = "add_entry"
    /\ inflight[w].pc = "commit"
    /\ IF federated_catalog[item.data_id] # NoEntry
       THEN Committed(w, InternalServerError) /\ UNCHANGED fc_vars
       ELSE /\ Committed(w, Ok)
            /\ federated_catalog' =
                  [federated_catalog EXCEPT ![item.data_id] =
                      [user_id |-> item.user_id, description |-> item.description,
                       endpoint |-> item.endpoint]]
            /\ published_under' =
                  [published_under EXCEPT ![item.data_id] = first_key(item.user_id)]
    /\ UNCHANGED <<kd_vars, lc_vars, now, directory_up, cn_vars, seen, last>>

add_data_select(w, item) == Select(w, "add_data", item, add_data_response(item))

add_data_commit(w) ==
    LET item == inflight[w].req IN
    /\ inflight[w].op = "add_data"
    /\ inflight[w].pc = "commit"
    /\ IF local_catalog[item.data_id] # NoData
       THEN Committed(w, InternalServerError) /\ UNCHANGED lc_vars
       ELSE /\ Committed(w, Ok)
            /\ local_catalog' =
                  [local_catalog EXCEPT ![item.data_id] =
                      [description |-> item.description, admin_id |-> item.admin_id,
                       endpoint |-> item.endpoint]]
            /\ administered_under' =
                  [administered_under EXCEPT ![item.data_id] = first_key(item.admin_id)]
            /\ UNCHANGED <<local_authorization, cascaded>>
    /\ UNCHANGED <<kd_vars, fc_vars, now, directory_up, cn_vars, seen, last>>

add_authz_select(w, item) == Select(w, "add_authz", item, add_authz_response(item))

\* add_authz_commit on a table without the foreign key to local_catalog
add_authz_commit_no_fk(w) ==
    LET item == inflight[w].req IN
    /\ inflight[w].op = "add_authz"
    /\ inflight[w].pc = "commit"
    /\ IF local_authorization[<<item.data_id, item.access_grantee_id>>] # NoAuthZ
       THEN Committed(w, InternalServerError) /\ UNCHANGED local_authorization
       ELSE /\ Committed(w, Ok)
            /\ local_authorization' =
                  [local_authorization EXCEPT ![<<item.data_id, item.access_grantee_id>>] =
                      fromisoformat(item.expire_at).t]
    /\ UNCHANGED <<kd_vars, fc_vars, local_catalog, administered_under, cascaded, now, directory_up, cn_vars, seen, last>>

\* pk_authz (data_id, access_grantee_id), and the foreign key to local_catalog
add_authz_commit(w) ==
    LET item == inflight[w].req IN
    /\ inflight[w].op = "add_authz"
    /\ inflight[w].pc = "commit"
    /\ IF \/ local_authorization[<<item.data_id, item.access_grantee_id>>] # NoAuthZ
          \/ local_catalog[item.data_id] = NoData
       THEN Committed(w, InternalServerError) /\ UNCHANGED local_authorization
       ELSE /\ Committed(w, Ok)
            /\ local_authorization' =
                  [local_authorization EXCEPT ![<<item.data_id, item.access_grantee_id>>] =
                      fromisoformat(item.expire_at).t]
    /\ UNCHANGED <<kd_vars, fc_vars, local_catalog, administered_under, cascaded, now, directory_up, cn_vars, seen, last>>

delete_data_select(w, req) == Select(w, "delete_data", req, delete_data_response(req))

\* DELETE ... WHERE data_id = entry.data_id: a row deleted by now matches nothing
\* (StaleDataError, not caught); a row that is there goes with its
\* authorizations (ON DELETE CASCADE)
delete_data_commit(w) ==
    LET req == inflight[w].req IN
    /\ inflight[w].op = "delete_data"
    /\ inflight[w].pc = "commit"
    /\ IF local_catalog[req.data_id] = NoData
       THEN Committed(w, InternalServerError) /\ UNCHANGED lc_vars
       ELSE /\ Committed(w, Ok)
            /\ local_catalog' = [local_catalog EXCEPT ![req.data_id] = NoData]
            /\ local_authorization' =
                  [p \in DataIds \X Ids |->
                      IF p[1] = req.data_id THEN NoAuthZ ELSE local_authorization[p]]
            /\ administered_under' = [administered_under EXCEPT ![req.data_id] = NoKey]
            /\ cascaded' = [cascaded EXCEPT ![req.data_id] = Cardinality(GrantsOf(req.data_id))]
    /\ UNCHANGED <<kd_vars, fc_vars, now, directory_up, cn_vars, seen, last>>

\* the response goes back and the worker takes the next request
respond(w) ==
    /\ inflight[w].pc = "done"
    /\ inflight' = [inflight EXCEPT ![w] = NoSession]
    /\ UNCHANGED <<kd_vars, fc_vars, lc_vars, now, directory_up, cn_vars, seen, last>>

------------------------------------------------------------------------------

InitProgram ==
    /\ public_keys = EmptyBag
    /\ federated_catalog = [d \in DataIds |-> NoEntry]
    /\ published_under = [d \in DataIds |-> NoKey]
    /\ local_catalog = [d \in DataIds |-> NoData]
    /\ local_authorization = [p \in DataIds \X Ids |-> NoAuthZ]
    /\ administered_under = [d \in DataIds |-> NoKey]
    /\ cascaded = [d \in DataIds |-> 0]
    /\ directory_up = TRUE
    /\ users = [u \in Ids |-> NoUser]
    /\ key_files = [u \in Ids |-> NoKey]
    /\ now = 0
    /\ last = Idle
    /\ inflight = [w \in Workers |-> NoSession]

Init == InitProgram /\ seen = NotKept

\* the same state, with the history of accepted create requests kept
InitKept == InitProgram /\ seen = Kept

\* the registry alone, every kind of request
KdNext ==
    \/ \E req \in RegisterRequests(Ids, Keys, AllTimeStrs, AllSigs) : add_key(req)
    \/ \E req \in RegisterRequests(Ids, Keys, AllTimeStrs, AllSigs) : delete_key(req)
    \/ \E u \in Ids : get_key(u)
    \/ list_keys
    \/ delete_all_keys
    \/ Tick
    \/ Reply

SpecKD == Init /\ [][KdNext]_vars

\* the registry (well-signed requests) and the federated catalog; the key pairs
\* of Removers are the ones whose holders send remove requests
FcNextWith(Removers) ==
    \/ \E req \in RegisterRequests(Ids, Keys, IsoTimes, GoodSigs) : add_key(req)
    \/ \E req \in RegisterRequests(Ids, Removers, IsoTimes, SignedBy(Removers)) :
          delete_key(req)
    \/ \E item \in CatalogItems(DataIds, Ids, {"x"}, {"yz"}, AllTimeStrs, AllSigs) :
          add_entry(item)
    \/ \E req \in DeleteEntryRequests(DataIds, Ids, AllTimeStrs, AllSigs) : delete_entry(req)
    \/ \E d \in DataIds : get_by_dataid(d)
    \/ \E u \in Ids : search_by_user_id(u)
    \/ fc_reset_all
    \/ Tick
    \/ Reply

FcNext == FcNextWith(Keys)

SpecFC == Init /\ [][FcNext]_vars

\* the same, where the holder of K1 never asks for a removal
FcNextK2Removes == FcNextWith({"K2"})

SpecFCK2Removes == Init /\ [][FcNextK2Removes]_vars

\* the registry (well-signed requests) and the local catalog with one data_id
LcNext ==
    \/ \E req \in RegisterRequests(Ids, Keys, IsoTimes, GoodSigs) : add_key(req)
    \/ \E req \in RegisterRequests(Ids, Keys, IsoTimes, GoodSigs) : delete_key(req)
    \/ \E item \in DataItems({"d1"}, {"x", NoneStr}, Ids, {"yz"}, AllTimeStrs, AllSigs) :
          add_data(item)
    \/ \E item \in AuthZItems({"d1"}, {"B"}, {Iso(1), NotADate}, AllTimeStrs, AllSigs) :
          add_authz(item)
    \/ \E req \in SignedGetRequests({"d1"}, Ids, AllTimeStrs, AllSigs) : get_data(req)
    \/ \E req \in SignedGetRequests({"d1"}, Ids, AllTimeStrs, AllSigs) : get_authz(req)
    \/ \E req \in DataItems({"d1"}, {"x", "xy", NoneStr}, Ids, {"yz"}, AllTimeStrs, AllSigs) :
          delete_data(req)
    \/ \E req \in DeleteAuthZRequests({"d1"}, {"B"}, AllTimeStrs, AllSigs) : delete_authz(req)
    \/ debug_all
    \/ lc_reset_all
    \/ Tick
    \/ Reply

SpecLAC == Init /\ [][LcNext]_vars

\* the local catalog with two grantees per resource and grants that expire
GrantsNext ==
    \/ \E req \in RegisterRequests({"A"}, {"K1"}, {Iso(MaxTime)}, SignedBy({"K1"})) :
          add_key(req)
    \/ \E req \in RegisterRequests({"B"}, {"K2"}, {Iso(MaxTime)}, SignedBy({"K2"})) :
          add_key(req)
    \/ \E item \in DataItems({"d1"}, Descriptions, Ids, {"yz"}, {Iso(MaxTime)}, GoodSigs) :
          add_data(item)
    \/ \E item \in AuthZItems({"d1"}, Ids, {Iso(0), Iso(1)}, {Iso(MaxTime)}, GoodSigs) :
          add_authz(item)
    \/ \E req \in SignedGetRequests({"d1"}, Ids, {Iso(MaxTime)}, GoodSigs) : get_data(req)
    \/ \E req \in SignedGetRequests({"d1"}, Ids, {Iso(MaxTime)}, GoodSigs) : get_authz(req)
    \/ \E req \in DataItems({"d1"}, Descriptions, Ids, {"yz"}, {Iso(MaxTime)}, GoodSigs) :
          delete_data(req)
    \/ \E req \in DeleteAuthZRequests({"d1"}, Ids, {Iso(MaxTime)}, GoodSigs) :
          delete_authz(req)
    \/ lc_reset_all
    \/ Tick
    \/ Reply

SpecGrants == Init /\ [][GrantsNext]_vars

\* the local catalog with descriptions that are empty, given or left out, and
\* removals with every kind of signature and expire_time
MismatchNext ==
    \/ \E req \in RegisterRequests({"A"}, {"K1"}, {Iso(MaxTime)}, SignedBy({"K1"})) :
          add_key(req)
    \/ \E req \in RegisterRequests({"B"}, {"K2"}, {Iso(MaxTime)}, SignedBy({"K2"})) :
          add_key(req)
    \/ \E item \in DataItems({"d1"}, {"", "x"}, Ids, Endpoints, {Iso(MaxTime)}, GoodSigs) :
          add_data(item)
    \/ \E item \in AuthZItems({"d1"}, Ids, {Iso(1)}, {Iso(MaxTime)}, GoodSigs) :
          add_authz(item)
    \/ \E req \in DataItems({"d1"}, {"", "x", NoneStr}, Ids, Endpoints, AllTimeStrs, AllSigs) :
          delete_data(req)
    \/ Tick
    \/ Reply

SpecMismatch == Init /\ [][MismatchNext]_vars

\* both catalogs with descriptions and endpoints that vary; the local catalog
\* also gets requests signed as for the federated catalog
PublishNext ==
    \/ \E req \in RegisterRequests({"A"}, {"K1"}, {Iso(MaxTime)}, SignedBy({"K1"})) :
          add_key(req)
    \/ \E req \in RegisterRequests({"B"}, {"K2"}, {Iso(MaxTime)}, SignedBy({"K2"})) :
          add_key(req)
    \/ \E item \in CatalogItems({"d1"}, Ids, Descriptions, Endpoints, {Iso(MaxTime)}, GoodSigs) :
          add_entry(item)
    \/ \E req \in DeleteEntryRequests({"d1"}, Ids, {Iso(MaxTime)}, GoodSigs) : delete_entry(req)
    \/ \E d \in {"d1"} : get_by_dataid(d)
    \/ \E item \in DataItems({"d1"}, Descriptions, Ids, Endpoints, {Iso(MaxTime)}, GoodSigs) :
          add_data(item)
    \/ \E item \in CatalogSignedDataItems({"d1"}, Descriptions, Ids, Endpoints,
                                          {Iso(MaxTime)}, Keys) :
          add_data(item)
    \/ \E req \in DataItems({"d1"}, Descriptions, Ids, Endpoints, {Iso(MaxTime)}, GoodSigs) :
          delete_data(req)
    \/ Tick
    \/ Reply

SpecPublish == Init /\ [][PublishNext]_vars

\* the connector and the registry, which clients also reach without the connector
ConnNext ==
    \/ \E req \in RegisterRequests(Ids, Keys, {Iso(MaxTime)}, GoodSigs) : add_key(req)
    \/ \E u \in Ids : get_key(u)
    \/ \E u \in Ids, h \in PasswordHashes, k \in Keys :
          register_user([user_id |-> u, password_hash |-> h], k)
    \/ \E u \in Ids, h \in PasswordHashes :
          login_user([user_id |-> u, password_hash |-> h])
    \/ \E u \in Ids, c \in Ids, h \in PasswordHashes : get_user(u, c, h)
    \/ Outage
    \/ Recover
    \/ Tick
    \/ Reply

SpecConn == Init /\ [][ConnNext]_vars

\* the local catalog with two data_ids and reads signed for every expire_time
ReadsNext ==
    \/ \E req \in RegisterRequests({"A"}, {"K1"}, {Iso(MaxTime)}, SignedBy({"K1"})) :
          add_key(req)
    \/ \E req \in RegisterRequests({"B"}, {"K2"}, {Iso(MaxTime)}, SignedBy({"K2"})) :
          add_key(req)
    \/ \E item \in DataItems(DataIds, {"x"}, Ids, {"yz"}, {Iso(MaxTime)}, GoodSigs) :
          add_data(item)
    \/ \E item \in AuthZItems(DataIds, {"B"}, {Iso(1)}, {Iso(MaxTime)}, GoodSigs) :
          add_authz(item)
    \/ \E req \in SignedGetRequests(DataIds, Ids, IsoTimes, GoodSigs) : get_data(req)
    \/ \E req \in SignedGetRequests(DataIds, Ids, IsoTimes, GoodSigs) : get_authz(req)
    \/ Tick
    \/ Reply

SpecReads == Init /\ [][ReadsNext]_vars

\* the three services with the removals that make room for a request to be
\* sent again, the history of accepted create requests kept
ReplayNext ==
    \/ \E req \in RegisterRequests({"A"}, {"K1"}, {Iso(MaxTime)}, SignedBy({"K1"})) :
          add_key(req)
    \/ \E req \in RegisterRequests({"B"}, {"K2"}, {Iso(MaxTime)}, SignedBy({"K2"})) :
          add_key(req)
    \/ \E req \in RegisterRequests({"B"}, {"K2"}, {Iso(MaxTime)}, SignedBy({"K2"})) :
          delete_key(req)
    \/ \E item \in CatalogItems({"d1"}, Ids, {"x"}, {"yz"}, {Iso(1), Iso(MaxTime)}, GoodSigs) :
          add_entry(item)
    \/ \E req \in DeleteEntryRequests({"d1"}, Ids, {Iso(MaxTime)}, GoodSigs) : delete_entry(req)
    \/ \E item \in DataItems({"d1"}, {"x"}, {"A"}, {"yz"}, {Iso(MaxTime)}, GoodSigs) :
          add_data(item)
    \/ \E item \in AuthZItems({"d1"}, {"B"}, {Iso(1)}, {Iso(1), Iso(MaxTime)}, GoodSigs) :
          add_authz(item)
    \/ \E req \in DeleteAuthZRequests({"d1"}, {"B"}, {Iso(MaxTime)}, GoodSigs) :
          delete_authz(req)
    \/ Tick
    \/ Reply

SpecReplay == InitKept /\ [][ReplayNext]_vars

\* the three services while A's key is removed and A registers again, with
\* the same key or with the other
RekeyNext ==
    \/ \E req \in RegisterRequests({"A"}, Keys, {Iso(MaxTime)}, GoodSigs) : add_key(req)
    \/ \E req \in RegisterRequests({"A"}, Keys, {Iso(MaxTime)}, GoodSigs) : delete_key(req)
    \/ \E item \in CatalogItems({"d1"}, {"A"}, {"x"}, {"yz"}, {Iso(MaxTime)}, GoodSigs) :
          add_entry(item)
    \/ \E req \in DeleteEntryRequests({"d1"}, {"A"}, {Iso(MaxTime)}, GoodSigs) :
          delete_entry(req)
    \/ \E d \in {"d1"} : get_by_dataid(d)
    \/ \E item \in DataItems({"d1"}, {"x"}, {"A"}, {"yz"}, {Iso(MaxTime)}, GoodSigs) :
          add_data(item)
    \/ \E item \in AuthZItems({"d1"}, {"B"}, {Iso(1)}, {Iso(MaxTime)}, GoodSigs) :
          add_authz(item)
    \/ \E req \in DataItems({"d1"}, {"x"}, {"A"}, {"yz"}, {Iso(MaxTime)}, GoodSigs) :
          delete_data(req)
    \/ \E req \in DeleteAuthZRequests({"d1"}, {"B"}, {Iso(MaxTime)}, GoodSigs) :
          delete_authz(req)
    \/ Tick
    \/ Reply

SpecRekey == Init /\ [][RekeyNext]_vars

\* the catalogs while the registry comes and goes
OutageNext ==
    \/ \E req \in RegisterRequests({"A"}, {"K1"}, {Iso(MaxTime)}, SignedBy({"K1"})) :
          add_key(req)
    \/ \E item \in CatalogItems({"d1"}, Ids, {"x"}, {"yz"}, {Iso(MaxTime)}, GoodSigs) :
          add_entry(item)
    \/ \E req \in DeleteEntryRequests({"d1"}, Ids, {Iso(MaxTime)}, GoodSigs) :
          delete_entry(req)
    \/ \E item \in DataItems({"d1"}, {"x"}, Ids, {"yz"}, {Iso(MaxTime)}, GoodSigs) :
          add_data(item)
    \/ \E req \in SignedGetRequests({"d1"}, Ids, {Iso(MaxTime)}, GoodSigs) : get_data(req)
    \/ Outage
    \/ Recover
    \/ Reply

SpecOutage == Init /\ [][OutageNext]_vars

\* the three services together, one data_id
Next ==
    \/ \E req \in RegisterRequests(Ids, Keys, TimeStrs, SomeSigs) : add_key(req)
    \/ \E req \in RegisterRequests(Ids, Keys, TimeStrs, SomeSigs) : delete_key(req)
    \/ delete_all_keys
    \/ \E item \in CatalogItems({"d1"}, Ids, {"x"}, {"yz"}, TimeStrs, SomeSigs) :
          add_entry(item)
    \/ \E req \in DeleteEntryRequests({"d1"}, Ids, TimeStrs, SomeSigs) : delete_entry(req)
    \/ fc_reset_all
    \/ \E item \in DataItems({"d1"}, {"x"}, Ids, {"yz"}, TimeStrs, SomeSigs) : add_data(item)
    \/ \E item \in AuthZItems({"d1"}, {"B"}, {Iso(1)}, TimeStrs, SomeSigs) : add_authz(item)
    \/ \E req \in SignedGetRequests({"d1"}, Ids, TimeStrs, SomeSigs) : get_data(req)
    \/ \E req \in SignedGetRequests({"d1"}, Ids, TimeStrs, SomeSigs) : get_authz(req)
    \/ \E req \in DataItems({"d1"}, {"x"}, Ids, {"yz"}, TimeStrs, SomeSigs) : delete_data(req)
    \/ \E req \in DeleteAuthZRequests({"d1"}, {"B"}, TimeStrs, SomeSigs) : delete_authz(req)
    \/ lc_reset_all
    \/ Tick
    \/ Reply

Spec == Init /\ [][Next]_vars

\* two workers, create requests with a valid or a foreign signature
ConcNext ==
    \/ \E w \in Workers :
          \E req \in RegisterRequests({"A"}, Keys, {Iso(MaxTime)}, GoodSigs) :
             add_key_select(w, req)
    \/ \E w \in Workers : add_key_commit(w)
    \/ \E w \in Workers :
          \E item \in CatalogItems({"d1"}, {"A"}, {"x"}, {"yz"}, {Iso(MaxTime)}, GoodSigs) :
             add_entry_select(w, item)
    \/ \E w \in Workers : add_entry_commit(w)
    \/ \E w \in Workers :
          \E item \in DataItems({"d1"}, {"x"}, {"A"}, {"yz"}, {Iso(MaxTime)}, GoodSigs) :
             add_data_select(w, item)
    \/ \E w \in Workers : add_data_commit(w)
    \/ \E w \in Workers :
          \E item \in AuthZItems({"d1"}, {"B"}, {Iso(1)}, {Iso(MaxTime)}, GoodSigs) :
             add_authz_select(w, item)
    \/ \E w \in Workers : add_authz_commit(w)
    \/ \E w \in Workers : respond(w)

SpecConc == Init /\ [][ConcNext]_vars

\* two workers on the registry: register and remove in steps, delete_all in one
\* transaction
KdRaceNext ==
    \/ \E w \in Workers :
          \E req \in RegisterRequests(Ids, Keys, {Iso(MaxTime)}, GoodSigs) :
             add_key_select(w, req)
    \/ \E w \in Workers : add_key_commit(w)
    \/ \E w \in Workers :
          \E req \in RegisterRequests(Ids, Keys, {Iso(MaxTime)}, GoodSigs) :
             delete_key_select(w, req)
    \/ \E w \in Workers : delete_key_commit(w)
    \/ \E w \in Workers : respond(w)
    \/ delete_all_keys
    \/ Reply

SpecKDRace == Init /\ [][KdRaceNext]_vars

\* two workers on the local catalog: publish, grant and revoke in steps, reset
\* in one transaction
RaceNext ==
    \/ \E w \in Workers :
          \E req \in RegisterRequests({"A"}, {"K1"}, {Iso(MaxTime)}, SignedBy({"K1"})) :
             add_key_select(w, req)
    \/ \E w \in Workers :
          \E req \in RegisterRequests({"B"}, {"K2"}, {Iso(MaxTime)}, SignedBy({"K2"})) :
             add_key_select(w, req)
    \/ \E w \in Workers : add_key_commit(w)
    \/ \E w \in Workers :
          \E item \in DataItems({"d1"}, {"x"}, Ids, {"yz"}, {Iso(MaxTime)}, GoodSigs) :
             add_data_select(w, item)
    \/ \E w \in Workers : add_data_commit(w)
    \/ \E w \in Workers :
          \E item \in AuthZItems({"d1"}, {"B"}, {Iso(1)}, {Iso(MaxTime)}, GoodSigs) :
             add_authz_select(w, item)
    \/ \E w \in Workers : add_authz_commit(w)
    \/ \E w \in Workers :
          \E req \in DataItems({"d1"}, {"x"}, Ids, {"yz"}, {Iso(MaxTime)}, GoodSigs) :
             delete_data_select(w, req)
    \/ \E w \in Workers : delete_data_commit(w)
    \/ \E w \in Workers : respond(w)
    \/ lc_reset_all
    \/ Reply

SpecRace == Init /\ [][RaceNext]_vars

------------------------------------------------------------------------------
(* Reading a response *)

Accepted(l) == l.status = 200
IsExpired(l) == l.status = 400 /\ l.detail = "Signature expired"
IsInvalidSignature(l) ==
    \/ l.status = 400 /\ l.detail = "Invalid signature"
    \/ l.status = 403 /\ l.detail = "Invalid signature."
IsDuplicate(l) ==
    l.status = 400 /\ l.detail \in {"DataID already exists.", "AuthZ already exists."}
IsAlreadyRegistered(l) == l.status = 409 /\ l.detail = "UserID already registered"
IsNotFound(l) == l.status = 404
IsServerError(l) == l.status >= 500
IsForbidden(l) == l.status = 403 /\ l.detail = "User not authorized."
IsRecordMismatch(l) ==
    l.status = 400 /\ l.detail = "Request data does not match stored record."

Stores == <<public_keys, federated_catalog, local_catalog, local_authorization>>

Mutations == {"add_key", "delete_key", "add_entry", "delete_entry",
              "add_data", "add_authz", "delete_data", "delete_authz"}
SignedOps == Mutations \cup {"get_data", "get_authz"}

------------------------------------------------------------------------------
(* Claims *)

\* C1: KeyDirectory.remove deletes the record of an identity only when the
\* submitted public key equals the stored key and the signature verifies under
\* it; a remove carrying another key pair (signed with that other key) is
\* rejected and leaves the stored record in place.
C1_RemoveOnlyWithStoredKey ==
    [][last'.op = "delete_key" =>
         LET u == last'.req.user_id
             stored == first_key(u)
         IN  /\ key_in(public_keys', u) # stored =>
                   /\ last'.req.public_key = stored
                   /\ ecdsa_verify(stored, RegisterMsg(last'.req), last'.req.signature) = "ok"
             /\ (stored # NoKey /\ last'.req.public_key # stored) =>
                   /\ ~Accepted(last')
                   /\ public_keys' = public_keys]_vars

\* C2: a catalog entry owned by A is created or destroyed only by requests
\* signed with a private key of the party that had registered A when the entry
\* was published: who never held that key can neither retract A's entry nor
\* publish under A.
C2_OnlyOwnerKeyCreatesOrDestroys ==
    [][/\ (last'.op = "delete_entry" /\ Accepted(last')) =>
              last'.req.signature.key = published_under[last'.req.data_id]
       /\ (last'.op = "add_entry" /\ Accepted(last')) =>
              last'.req.signature.key = first_key(last'.req.user_id)]_vars

\* C3: only the holder of the private key registered for the administrator of a
\* local resource obtains the resource's metadata or grants from
\* LocalAccessController.
C3_OnlyAdminReads ==
    /\ (last.op \in {"get_data", "get_authz"} /\ Accepted(last)) =>
           last.req.signature.key = administered_under[last.req.data_id]
    /\ last.op = "debug_all" => (last.body.catalog = {} /\ last.body.authz = {})

\* the identity whose key the handler resolves
ClaimedIdentity(op, req) ==
    CASE op \in {"add_key", "delete_key", "add_entry", "delete_entry"} -> req.user_id
      [] op \in {"add_data", "delete_data", "get_data", "get_authz"} -> req.admin_id
      [] op \in {"add_authz", "delete_authz"} -> local_catalog[req.data_id].admin_id

\* the key on file in KeyDirectory for the claimed identity (NoKey: none)
KeyOnFile(op, req) ==
    LET u == ClaimedIdentity(op, req) IN IF u \in Ids THEN first_key(u) ELSE NoKey

\* the key the signature is verified against: register and remove take the
\* submitted key, every other operation the key resolved through KeyDirectory
VerifyingKey(op, req) ==
    IF op \in {"add_key", "delete_key"} THEN req.public_key ELSE KeyOnFile(op, req)

\* expire_time is a timestamp with a UTC marker that has not passed
Fresh(req) ==
    LET e == fromisoformat(req.expire_time) IN e.kind = "aware" /\ now <= e.t
Stale(req) ==
    LET e == fromisoformat(req.expire_time) IN e.kind = "aware" /\ now > e.t

\* C4: every operation that changes a store carries a signature over its fields
\* and expire_time that verifies against the key on file for the claimed
\* identity (for register, the submitted key), with expire_time not passed.
C4_EveryChangeIsSigned ==
    [][Stores' # Stores =>
         /\ last'.op \in Mutations
         /\ Fresh(last'.req)
         /\ ecdsa_verify(IF last'.op = "add_key" THEN last'.req.public_key
                         ELSE KeyOnFile(last'.op, last'.req),
                         ClientMsg(last'.op, last'.req), last'.req.signature) = "ok"]_vars

\* C5: no signed request is accepted when the current time is strictly after
\* its expire_time, and a request whose expire_time equals the current time is
\* not rejected as expired.
C5_Freshness ==
    last.op \in SignedOps =>
        /\ Stale(last.req) => ~Accepted(last)
        /\ (Fresh(last.req) /\ fromisoformat(last.req.expire_time).t = now) => ~IsExpired(last)

C5_Witness ==
    /\ last.op = "delete_authz"
    /\ Accepted(last)
    /\ now > 0
    /\ fromisoformat(last.req.expire_time).t = now

\* C6: a signed request whose expire_time is strictly before the current time
\* gets the Expired error whatever its other fields are.
C6_StaleIsExpired ==
    (last.op \in SignedOps /\ Stale(last.req)) => IsExpired(last)

\* the checks a handler makes before it verifies the signature have passed
ReachesVerification(op, req) ==
    /\ Fresh(req)
    /\ ClientMsg(op, req) # NoneStr
    /\ op = "delete_data" =>
          /\ local_catalog[req.data_id] # NoData
          /\ local_catalog[req.data_id] =
                [description |-> req.description, admin_id |-> req.admin_id,
                 endpoint |-> req.endpoint]
    /\ op = "delete_authz" =>
          local_authorization[<<req.data_id, req.access_grantee_id>>] # NoAuthZ

ValidCreate(op, req) ==
    /\ op \in {"add_entry", "add_data", "add_authz"}
    /\ Fresh(req)
    /\ ClientMsg(op, req) # NoneStr
    /\ KeyOnFile(op, req) \in Keys
    /\ ecdsa_verify(KeyOnFile(op, req), ClientMsg(op, req), req.signature) = "ok"
    /\ op = "add_authz" => fromisoformat(req.expire_at).kind # "error"

\* C8: publish / publish_resource / grant_access with a valid fresh signature
\* succeeds when the key (data_id, or (data_id, grantee)) is free and stores the
\* request's record; when the key is taken it fails DuplicateId / DuplicateGrant
\* and the stored record is unchanged.
C8_Uniqueness ==
    [][ValidCreate(last'.op, last'.req) =>
         LET req == last'.req IN
         CASE last'.op = "add_entry" ->
                IF federated_catalog[req.data_id] # NoEntry
                THEN IsDuplicate(last') /\ Stores' = Stores
                ELSE /\ Accepted(last')
                     /\ federated_catalog' =
                           [federated_catalog EXCEPT ![req.data_id] =
                               [user_id |-> req.user_id, description |-> req.description,
                                endpoint |-> req.endpoint]]
           [] last'.op = "add_data" ->
                IF local_catalog[req.data_id] # NoData
                THEN IsDuplicate(last') /\ Stores' = Stores
                ELSE /\ Accepted(last')
                     /\ local_catalog' =
                           [local_catalog EXCEPT ![req.data_id] =
                               [description |-> req.description, admin_id |-> req.admin_id,
                                endpoint |-> req.endpoint]]
           [] last'.op = "add_authz" ->
                IF local_authorization[<<req.data_id, req.access_grantee_id>>] # NoAuthZ
                THEN IsDuplicate(last') /\ Stores' = Stores
                ELSE /\ Accepted(last')
                     /\ local_authorization' =
                           [local_authorization EXCEPT
                               ![<<req.data_id, req.access_grantee_id>>] =
                                   fromisoformat(req.expire_at).t]]_vars

C8_Witness ==
    /\ last.op = "add_authz"
    /\ IsDuplicate(last)
    /\ federated_catalog["d1"] # NoEntry

\* two handlers of the same operation on the same key (identity, data_id, or
\* (data_id, grantee))
SameKey(s, t) ==
    /\ s.op = t.op
    /\ CASE s.op = "add_key" -> s.req.user_id = t.req.user_id
         [] s.op = "add_authz" -> /\ s.req.data_id = t.req.data_id
                                  /\ s.req.access_grantee_id = t.req.access_grantee_id
         [] OTHER -> s.req.data_id = t.req.data_id

\* both handlers found the key free: their steps were interleaved
Raced(s, t) ==
    /\ s.pc = "done" /\ t.pc = "done"
    /\ s.selected /\ t.selected
    /\ SameKey(s, t)

\* C9: when two validly signed create requests for the same key run
\* concurrently with their steps interleaved, exactly one succeeds and the
\* other fails with DuplicateId / DuplicateGrant / AlreadyRegistered.
C9_RaceLoserGetsDuplicate ==
    \A w, v \in Workers :
        (w # v /\ Raced(inflight[w], inflight[v]) /\ Accepted(inflight[w])) =>
            (IsDuplicate(inflight[v]) \/ IsAlreadyRegistered(inflight[v]))

\* a retract / revoke_resource of an existing record, validly signed by a
\* registered identity that is not the stored owner / administrator
ByNonOwner(op, req) ==
    /\ op \in {"delete_entry", "delete_data"}
    /\ Fresh(req)
    /\ ClientMsg(op, req) # NoneStr
    /\ KeyOnFile(op, req) \in Keys
    /\ ecdsa_verify(KeyOnFile(op, req), ClientMsg(op, req), req.signature) = "ok"
    /\ \/ /\ op = "delete_entry"
          /\ federated_catalog[req.data_id] # NoEntry
          /\ federated_catalog[req.data_id].user_id # req.user_id
       \/ /\ op = "delete_data"
          /\ local_catalog[req.data_id] # NoData
          /\ local_catalog[req.data_id].admin_id # req.admin_id

\* C10 as stated: such a request fails with Forbidden and the target is unchanged.
C10_NonOwnerForbidden ==
    [][ByNonOwner(last'.op, last'.req) => (IsForbidden(last') /\ Stores' = Stores)]_vars

\* C10 amended: CatalogAuthority.retract by a non-owner fails with Forbidden,
\* LocalAccessController.revoke_resource by a non-administrator fails with
\* RecordMismatch; the target record is unchanged in both.
C10_NonOwnerRejected ==
    [][ByNonOwner(last'.op, last'.req) =>
         /\ last'.op = "delete_entry" => IsForbidden(last')
         /\ last'.op = "delete_data" => IsRecordMismatch(last')
         /\ Stores' = Stores]_vars

C10_Witness ==
    /\ last.op = "delete_entry"
    /\ IsForbidden(last)
    /\ local_catalog["d1"] # NoData

\* C11: a successful revoke_resource leaves no grant of the data_id in the
\* store; a data_id published again starts with no grant, grants appear only by
\* a successful grant_access, and read_grants of a resource without grants
\* returns none.
C11_Cascade ==
    [][/\ (last'.op \in {"delete_data", "add_data"} /\ Accepted(last')) =>
              \A g \in Ids : local_authorization'[<<last'.req.data_id, g>>] = NoAuthZ
       /\ \A p \in DataIds \X Ids :
              (local_authorization[p] = NoAuthZ /\ local_authorization'[p] # NoAuthZ) =>
                  (last'.op = "add_authz" /\ Accepted(last') /\ last'.req.data_id = p[1])
       /\ (last'.op = "get_authz" /\ Accepted(last') /\ GrantsOf(last'.req.data_id) = {}) =>
              last'.body.authz = {}]_vars

\* read_grants answers no grant for a data_id published again after a revoke
\* that took two grants with it
C11_Witness ==
    /\ last.op = "get_authz"
    /\ Accepted(last)
    /\ last.body.authz = {}
    /\ cascaded[last.req.data_id] = 2
    /\ now = 0

\* C12: every stored grant refers to a data_id that has a local_catalog row,
\* also when the steps of grant_access interleave with a revoke_resource or a
\* reset of the same data_id.
C12_NoOrphanGrant ==
    \A p \in DataIds \X Ids :
        local_authorization[p] # NoAuthZ => local_catalog[p[1]] # NoData

\* a grant_access that passed its checks was refused at the insert because the
\* resource had been deleted in between
C12_Witness ==
    \E w \in Workers :
        /\ inflight[w].op = "add_authz"
        /\ inflight[w].pc = "done"
        /\ inflight[w].selected
        /\ ~Accepted(inflight[w])
        /\ local_catalog[inflight[w].req.data_id] = NoData

\* C13: every grant that grant_access inserts is authorized by a signature that
\* verifies under the key of the identity that administers the resource at the
\* moment of the insert.
C13_GrantSignedByAdminAtInsert ==
    [][\A w \in Workers :
          (/\ inflight[w].op = "add_authz"
           /\ inflight[w].pc = "commit"
           /\ inflight'[w].pc = "done"
           /\ Accepted(inflight'[w])) =>
              ecdsa_verify(KeyOnFile("add_authz", inflight[w].req),
                           AddAuthzMsg(inflight[w].req), inflight[w].req.signature) = "ok"]_vars

C15_DuplicateUntilRevoked ==
    [][/\ (/\ ValidCreate(last'.op, last'.req)
           /\ last'.op = "add_authz"
           /\ local_authorization[<<last'.req.data_id, last'.req.access_grantee_id>>]
                 # NoAuthZ) =>
              (IsDuplicate(last') /\ Stores' = Stores)
       /\ \A p \in DataIds \X Ids :
              (local_authorization[p] # NoAuthZ /\ local_authorization'[p] = NoAuthZ) =>
                  (last'.op \in {"delete_authz", "delete_data"} /\ Accepted(last'))]_vars

\* a read_resource with a fresh signature of the key on file for its admin_id
ValidRead(op, req) ==
    /\ op = "get_data"
    /\ Fresh(req)
    /\ KeyOnFile(op, req) \in Keys
    /\ ecdsa_verify(KeyOnFile(op, req), GetMsg(req), req.signature) = "ok"

\* C16: publish_resource stores the request's fields and the stored row does
\* not change until it is deleted; a validly signed read_resource by the
\* administrator returns exactly the stored data_id, admin, description and
\* endpoint; after a successful revoke_resource the row is absent, and a
\* read_resource of an absent data_id fails NotFound.
C16_RoundTrip ==
    [][/\ (last'.op = "add_data" /\ Accepted(last')) =>
              local_catalog'[last'.req.data_id] =
                  [description |-> last'.req.description, admin_id |-> last'.req.admin_id,
                   endpoint |-> last'.req.endpoint]
       /\ \A d \in DataIds :
              local_catalog[d] # NoData => local_catalog'[d] \in {local_catalog[d], NoData}
       /\ (/\ ValidRead(last'.op, last'.req)
           /\ local_catalog[last'.req.data_id] # NoData
           /\ local_catalog[last'.req.data_id].admin_id = last'.req.admin_id) =>
              /\ Accepted(last')
              /\ last'.body.catalog =
                     {[data_id |-> last'.req.data_id,
                       description |-> local_catalog[last'.req.data_id].description,
                       admin_id |-> local_catalog[last'.req.data_id].admin_id,
                       endpoint |-> local_catalog[last'.req.data_id].endpoint]}
       /\ (last'.op = "delete_data" /\ Accepted(last')) =>
              local_catalog'[last'.req.data_id] = NoData
       /\ (last'.op = "get_data" /\ local_catalog[last'.req.data_id] = NoData) =>
              IsNotFound(last')]_vars

\* the administrator reads back a resource that was published again after a
\* revoke
C16_Witness ==
    /\ last.op = "get_data"
    /\ Accepted(last)
    /\ last.body.catalog = {[data_id |-> "d1", description |-> "xy", admin_id |-> "B",
                             endpoint |-> "yz"]}
    /\ cascaded["d1"] = 1

\* the handler of the response resolved a key (publish and retract resolve
\* before every other check, publish_resource after the expiry check)
ResolvesKey(l) ==
    \/ l.op \in {"add_entry", "delete_entry"}
    \/ l.op = "add_data" /\ Fresh(l.req)

\* C17: what a catalog reports when the directory is unreachable
\* (DirectoryUnavailable, a server error) is of another error class than what
\* it reports when the directory answers that the identity has no key.
C17_OutageDistinctFromNoKey ==
    ResolvesKey(last) =>
        /\ ~directory_up => IsServerError(last)
        /\ (directory_up /\ KeyOnFile(last.op, last.req) = NoKey) => ~IsServerError(last)

\* C18: table public_keys holds at most one row per identity, after any
\* sequence and any interleaving of register, remove and delete_all.
C18_OneKeyPerIdentity ==
    \A u \in Ids : row_count(u) <= 1

\* a register that found the identity free was refused at the insert, because
\* a concurrent register of the identity had committed
C18_Witness ==
    \E w \in Workers :
        /\ inflight[w].op = "add_key"
        /\ inflight[w].pc = "done"
        /\ inflight[w].selected
        /\ ~Accepted(inflight[w])
        /\ row_count(inflight[w].req.user_id) = 1

\* a register with a fresh signature made with the private key of the
\* submitted public key
ValidRegister(op, req) ==
    /\ op = "add_key"
    /\ Fresh(req)
    /\ ecdsa_verify(req.public_key, RegisterMsg(req), req.signature) = "ok"

\* C19: a validly signed register for an identity that has a record fails
\* AlreadyRegistered and leaves the table as it is, whatever key it submits;
\* the key of an identity never changes in place, and it goes away only by a
\* successful remove of the identity.
C19_NoRotationByRegister ==
    [][/\ (ValidRegister(last'.op, last'.req) /\ first_key(last'.req.user_id) # NoKey) =>
              (IsAlreadyRegistered(last') /\ public_keys' = public_keys)
       /\ \A u \in Ids :
              (first_key(u) # NoKey /\ key_in(public_keys', u) # first_key(u)) =>
                  /\ key_in(public_keys', u) = NoKey
                  /\ last'.op = "delete_key"
                  /\ Accepted(last')
                  /\ last'.req.user_id = u]_vars

\* C20: resolve answers NotFound for an identity without a record and the
\* stored key for one with a record; a successful remove leaves the identity
\* without a record; a validly signed register of an identity without a record
\* succeeds and stores the submitted key, whether or not it is the key the
\* identity had before; and a key comes to be stored for an identity only in
\* that way.
C20_Cycle ==
    [][/\ last'.op = "get_key" =>
              IF first_key(last'.req.user_id) = NoKey
              THEN IsNotFound(last')
              ELSE /\ Accepted(last')
                   /\ last'.body.keys = {[user_id |-> last'.req.user_id,
                                          public_key |-> first_key(last'.req.user_id)]}
       /\ (last'.op = "delete_key" /\ Accepted(last')) =>
              /\ first_key(last'.req.user_id) # NoKey
              /\ key_in(public_keys', last'.req.user_id) = NoKey
       /\ (ValidRegister(last'.op, last'.req) /\ first_key(last'.req.user_id) = NoKey) =>
              /\ Accepted(last')
              /\ key_in(public_keys', last'.req.user_id) = last'.req.public_key
       /\ \A u \in Ids :
              key_in(public_keys', u) \notin {NoKey, first_key(u)} =>
                  /\ first_key(u) = NoKey
                  /\ last'.op = "add_key" /\ Accepted(last')
                  /\ last'.req.user_id = u
                  /\ last'.req.public_key = key_in(public_keys', u)]_vars

\* a remove has just succeeded: the identity, which had a record, has none
C20_Witness ==
    /\ last.op = "delete_key"
    /\ Accepted(last)
    /\ first_key(last.req.user_id) = NoKey

\* the signature of a register request verifies under the submitted key
PossessionProved(req) ==
    ecdsa_verify(req.public_key, RegisterMsg(req), req.signature) = "ok"

\* C21: register changes the table only by storing the submitted (identity,
\* public key), and only when the signature over identity, public key and
\* expire_time verifies under the submitted public key; a register whose
\* signature does not verify under it is rejected and the table stays as it is.
C21_ProofOfPossession ==
    [][last'.op = "add_key" =>
          /\ (public_keys' # public_keys) =>
                 /\ PossessionProved(last'.req)
                 /\ Accepted(last')
                 /\ public_keys' = insert_key(last'.req.user_id, last'.req.public_key)
          /\ ~PossessionProved(last'.req) =>
                 (~Accepted(last') /\ public_keys' = public_keys)]_vars

\* a fresh register of an identity without a record, signed over the right
\* message with the private key of another key pair, has been rejected
C21_Witness ==
    /\ last.op = "add_key"
    /\ Fresh(last.req)
    /\ last.req.signature # BadB64
    /\ last.req.signature.msg = RegisterMsg(last.req)
    /\ last.req.signature.key \in Keys \ {last.req.public_key}
    /\ first_key(last.req.user_id) = NoKey
    /\ IsInvalidSignature(last)

\* C22: a fresh grant_access on a data_id without a resource is answered with
\* the NotFound error and creates no grant.
C22_GrantOnAbsentIsNotFound ==
    [][(/\ last'.op = "add_authz"
        /\ Fresh(last'.req)
        /\ local_catalog[last'.req.data_id] = NoData) =>
           (IsNotFound(last') /\ local_authorization' = local_authorization)]_vars

\* the request's description, endpoint or admin_id differs from the stored row
DiffersFromStored(req) ==
    LET entry == local_catalog[req.data_id] IN
    /\ entry # NoData
    /\ \/ req.description # entry.description
       \/ req.endpoint # entry.endpoint
       \/ req.admin_id # entry.admin_id

\* C23: revoke_resource on an existing resource with a description, endpoint
\* or admin_identity that differs from the stored record is answered
\* RecordMismatch whatever its signature and expire_time are, and the resource
\* and the grants stay as they are.
C23_MismatchFirst ==
    [][(last'.op = "delete_data" /\ DiffersFromStored(last'.req)) =>
           /\ IsRecordMismatch(last')
           /\ UNCHANGED <<local_catalog, local_authorization>>]_vars

\* C24: revoke_grant on a pair without a stored grant is answered NotFound; a
\* stored grant goes away only when the signature over data_id, grantee and
\* expire_time verifies under the key on file for the administrator of the
\* resource, and then that one grant is removed while the resource and every
\* other grant stay as they are.
C24_RevokeGrantFrame ==
    [][last'.op = "delete_authz" =>
          LET req == last'.req
              pair == <<req.data_id, req.access_grantee_id>>
          IN  /\ local_authorization[pair] = NoAuthZ =>
                     (IsNotFound(last') /\ local_authorization' = local_authorization)
              /\ local_authorization' # local_authorization =>
                     /\ Accepted(last')
                     /\ local_catalog[req.data_id] # NoData
                     /\ ecdsa_verify(first_key(local_catalog[req.data_id].admin_id),
                                     DeleteAuthzMsg(req), req.signature) = "ok"
                     /\ local_authorization' =
                            [local_authorization EXCEPT ![pair] = NoAuthZ]
              /\ Accepted(last') => local_authorization'[pair] = NoAuthZ
              /\ local_catalog' = local_catalog]_vars

\* a grant has been revoked while another grant of the same resource stays
C24_Witness ==
    /\ last.op = "delete_authz"
    /\ Accepted(last)
    /\ local_catalog[last.req.data_id] # NoData
    /\ local_authorization[<<last.req.data_id, last.req.access_grantee_id>>] = NoAuthZ
    /\ \E g \in Ids \ {last.req.access_grantee_id} :
           local_authorization[<<last.req.data_id, g>>] # NoAuthZ

\* a fresh retract whose user_id has a key on file, under which the signature
\* over data_id, user_id and expire_time verifies
ValidRetract(op, req) ==
    /\ op = "delete_entry"
    /\ Fresh(req)
    /\ first_key(req.user_id) # NoKey
    /\ ecdsa_verify(first_key(req.user_id), DeleteEntryMsg(req), req.signature) = "ok"

\* C25: a retract with a valid fresh signature of a registered owner_identity
\* is answered NotFound when no entry has the data_id and Forbidden when the
\* stored owner is another identity, both leaving the catalog as it is;
\* otherwise it removes that entry and no other.
C25_RetractOutcomes ==
    [][ValidRetract(last'.op, last'.req) =>
          LET req == last'.req
              entry == federated_catalog[req.data_id]
          IN  IF entry = NoEntry
              THEN IsNotFound(last') /\ federated_catalog' = federated_catalog
              ELSE IF entry.user_id # req.user_id
              THEN IsForbidden(last') /\ federated_catalog' = federated_catalog
              ELSE /\ Accepted(last')
                   /\ federated_catalog' =
                          [federated_catalog EXCEPT ![req.data_id] = NoEntry]]_vars

\* an entry has been retracted while another entry stays
C25_Witness ==
    /\ ValidRetract(last.op, last.req)
    /\ Accepted(last)
    /\ federated_catalog[last.req.data_id] = NoEntry
    /\ \E d \in DataIds \ {last.req.data_id} : federated_catalog[d] # NoEntry

\* C26: a mutating request that is answered with an error leaves every store
\* as it was before the request.
C26_ErrorsChangeNothing ==
    [][(last'.op \in Mutations /\ ~Accepted(last')) => Stores' = Stores]_vars

\* a revoke_resource that matches the stored record has been refused for its
\* signature while the resource has a grant
C26_Witness ==
    /\ last.op = "delete_data"
    /\ IsInvalidSignature(last)
    /\ local_catalog[last.req.data_id] # NoData
    /\ GrantsOf(last.req.data_id) # {}

\* C27: an entry of the federated catalog that is there before and after a
\* step has the same owner, description and endpoint after it as before.
C27_EntryImmutable ==
    [][\A d \in DataIds :
          (federated_catalog[d] # NoEntry /\ federated_catalog'[d] # NoEntry) =>
              federated_catalog'[d] = federated_catalog[d]]_vars

\* a well-signed fresh publish by another registered identity, with another
\* description and endpoint, for a data_id that has an entry, has been refused
C27_Witness ==
    /\ last.op = "add_entry"
    /\ IsDuplicate(last)
    /\ federated_catalog[last.req.data_id] # NoEntry
    /\ federated_catalog[last.req.data_id].user_id # last.req.user_id
    /\ federated_catalog[last.req.data_id].description # last.req.description
    /\ federated_catalog[last.req.data_id].endpoint # last.req.endpoint
    /\ ecdsa_verify(first_key(last.req.user_id), AddEntryMsg(last.req),
                    last.req.signature) = "ok"

\* the error of a key or signature that cannot be decoded
IsMalformedSignature(l) == l.status = 400 /\ l.detail = "Signature verification error"

\* C28: in every service a mutation that reaches signature verification is
\* answered InvalidSignature when its well-formed signature does not verify
\* against the key, and with the error of malformed input, which is another
\* error, when the signature cannot be decoded.
C28_MalformedDistinctFromInvalid ==
    [][(/\ last'.op \in Mutations
        /\ VerifyingKey(last'.op, last'.req) \in Keys
        /\ ReachesVerification(last'.op, last'.req)) =>
           LET v == ecdsa_verify(VerifyingKey(last'.op, last'.req),
                                 ClientMsg(last'.op, last'.req), last'.req.signature)
           IN  /\ v = "bad" => IsInvalidSignature(last')
               /\ v = "error" => (IsMalformedSignature(last') /\ ~IsInvalidSignature(last'))]_vars

\* a fresh publish_resource whose admin_id has a key on file
ResolvedPublishResource(op, req) ==
    /\ op = "add_data"
    /\ Fresh(req)
    /\ KeyOnFile(op, req) \in Keys

\* add_data went past its signature check
PastSignature(l, req) ==
    IF local_catalog[req.data_id] = NoData THEN Accepted(l) ELSE IsDuplicate(l)

\* C29 as stated: publish_resource verifies over data_id, admin_identity,
\* description, endpoint, expire_time, so that a signature which publish of the
\* federated catalog accepts for the field values is accepted by it too.
C29_SameMessageAsPublish ==
    [][(/\ ResolvedPublishResource(last'.op, last'.req)
        /\ ecdsa_verify(KeyOnFile(last'.op, last'.req),
                        AddEntryMsg(AsCatalogItem(last'.req)), last'.req.signature) = "ok")
       => PastSignature(last', last'.req)]_vars

\* C29 amended: publish_resource verifies over data_id, description,
\* admin_identity, endpoint, expire_time: a fresh request of a registered admin
\* passes the signature check when its signature verifies over that message
\* and is answered InvalidSignature when its well-formed signature does not,
\* as does a signature made over the message of the federated catalog's publish.
C29_PublishResourceMessage ==
    [][ResolvedPublishResource(last'.op, last'.req) =>
          LET req == last'.req
              v == ecdsa_verify(KeyOnFile(last'.op, req),
                                Concat(<<req.data_id, req.description, req.admin_id,
                                         req.endpoint, req.expire_time>>), req.signature)
          IN  /\ v = "ok" => PastSignature(last', req)
              /\ v = "bad" => (IsInvalidSignature(last') /\ local_catalog' = local_catalog)]_vars

\* a signature that the federated catalog's publish accepts for the field
\* values has been refused by publish_resource
C29_Witness ==
    /\ ResolvedPublishResource(last.op, last.req)
    /\ ecdsa_verify(KeyOnFile(last.op, last.req),
                    AddEntryMsg(AsCatalogItem(last.req)), last.req.signature) = "ok"
    /\ IsInvalidSignature(last)

\* the publish requests with the same data_id, user_id, expire_time and
\* signature as item whose description and endpoint are other strings with the
\* same concatenation
ShiftedSplits(item) ==
    {[item EXCEPT !.description = de, !.endpoint = en] :
        <<de, en>> \in {p \in Descriptions \X Endpoints :
                           /\ p # <<item.description, item.endpoint>>
                           /\ p[1] \o p[2] = item.description \o item.endpoint}}

\* C30: the message is the concatenation of the fields with nothing between
\* them: when a publish is accepted, every publish with the same signature and
\* expire_time whose description and endpoint are split at another place of the
\* same string is a request the catalog accepts in that state as well.
C30_ShiftedSplitAccepted ==
    [][(last'.op = "add_entry" /\ Accepted(last')) =>
           \A twin \in ShiftedSplits(last'.req) : add_entry_response(twin) = Ok]_vars

\* a publish has been accepted that has a twin with another description and
\* endpoint under the same signature
C30_Witness ==
    /\ last.op = "add_entry"
    /\ Accepted(last)
    /\ ShiftedSplits(last.req) # {}
    /\ \A twin \in ShiftedSplits(last.req) :
           /\ twin # last.req
           /\ twin.signature = last.req.signature
           /\ ecdsa_verify(first_key(twin.user_id), AddEntryMsg(twin), twin.signature) = "ok"

\* the identities other than user_id whose stored key is public_key
SharersOf(user_id, public_key) ==
    {u \in Ids \ {user_id} : first_key(u) = public_key}

\* C31: a valid register of an identity without a record succeeds although the
\* submitted public key is stored under another identity, after it the key is
\* stored under both, and resolve answers the stored key of the identity asked
\* for whoever else has the same key.
C31_SharedKeyAccepted ==
    [][/\ (/\ ValidRegister(last'.op, last'.req)
           /\ first_key(last'.req.user_id) = NoKey
           /\ SharersOf(last'.req.user_id, last'.req.public_key) # {}) =>
              /\ Accepted(last')
              /\ key_in(public_keys', last'.req.user_id) = last'.req.public_key
              /\ \A u \in SharersOf(last'.req.user_id, last'.req.public_key) :
                     key_in(public_keys', u) = last'.req.public_key
       /\ (/\ last'.op = "get_key"
           /\ first_key(last'.req.user_id) # NoKey
           /\ SharersOf(last'.req.user_id, first_key(last'.req.user_id)) # {}) =>
              /\ Accepted(last')
              /\ last'.body.keys = {[user_id |-> last'.req.user_id,
                                     public_key |-> first_key(last'.req.user_id)]}]_vars

\* resolve has answered with a key that is stored under two identities
C31_Witness ==
    /\ last.op = "get_key"
    /\ Accepted(last)
    /\ \E k \in Keys :
           /\ \A u \in Ids : first_key(u) = k
           /\ last.body.keys = {[user_id |-> last.req.user_id, public_key |-> k]}

\* C32: the catalog gets an entry only by an accepted publish of it and loses
\* one only by an accepted retract of it or a reset; lookup answers NotFound for
\* a data_id without an entry and the stored entry otherwise; search_by_owner
\* answers the stored entries of the owner and no other, with their number as
\* count.
C32_ReadsReflectStore ==
    [][/\ \A d \in DataIds :
              federated_catalog'[d] # federated_catalog[d] =>
                  IF federated_catalog'[d] # NoEntry
                  THEN /\ federated_catalog[d] = NoEntry
                       /\ last'.op = "add_entry" /\ Accepted(last')
                       /\ last'.req.data_id = d
                       /\ federated_catalog'[d] =
                              [user_id |-> last'.req.user_id,
                               description |-> last'.req.description,
                               endpoint |-> last'.req.endpoint]
                  ELSE \/ last'.op = "delete_entry" /\ Accepted(last') /\ last'.req.data_id = d
                       \/ last'.op = "fc_reset_all"
       /\ last'.op = "get_by_dataid" =>
              IF federated_catalog[last'.req.data_id] = NoEntry
              THEN IsNotFound(last')
              ELSE /\ Accepted(last')
                   /\ last'.body.catalog =
                          {[data_id |-> last'.req.data_id] @@
                              federated_catalog[last'.req.data_id]}
       /\ last'.op = "search_by_user_id" =>
              /\ Accepted(last')
              /\ last'.body.catalog =
                     {[data_id |-> d] @@ federated_catalog[d] :
                         d \in {e \in DataIds : federated_catalog[e].user_id = last'.req.user_id}}
              /\ last'.body.count = Cardinality(last'.body.catalog)]_vars

\* a search has answered one owner's entry while the catalog holds an entry of
\* another owner too
C32_Witness ==
    /\ last.op = "search_by_user_id"
    /\ last.body.count = 1
    /\ \A d \in DataIds : federated_catalog[d] # NoEntry
    /\ \E d \in DataIds : federated_catalog[d].user_id # last.req.user_id

\* the registry accepts the request register_user sends for the key pair
RegistryAccepts(user_id, key_pair) ==
    directory_up /\ add_key_response(registry_add_request(user_id, key_pair)) = Ok

\* C33: when the connector's register answers success, the registry resolves
\* the user_id to the public key of the private key the connector has stored
\* for it; when the registry refuses the registration, the connector does not
\* answer success and stores no user file and no key file.
C33_RegisterMeansRegistered ==
    [][last'.op = "register_user" =>
          /\ Accepted(last') =>
                 /\ key_files'[last'.req.user_id] # NoKey
                 /\ key_in(public_keys', last'.req.user_id) = key_files'[last'.req.user_id]
          /\ (\A k \in Keys : ~RegistryAccepts(last'.req.user_id, k)) =>
                 (~Accepted(last') /\ UNCHANGED cn_vars)]_vars

\* C37: get_user answers with a user's record only to a caller whose basic-auth
\* credentials are those of that user.
C37_OwnRecordOnly ==
    [][(last'.op = "get_user" /\ Accepted(last')) =>
           /\ last'.req.username = last'.req.user_id
           /\ users[last'.req.user_id].password_hash = last'.req.password]_vars

\* the data_ids whose stored admin_id is admin_id
AdministeredBy(admin_id) ==
    {d \in DataIds : local_catalog[d] # NoData /\ local_catalog[d].admin_id = admin_id}

\* C34: read_resource and read_grants accept, for a data_id the admin
\* administers, every request whose expire_time has not passed and whose
\* signature is the admin's over expire_time alone; and when one of them has
\* accepted a request, the same admin_id, expire_time and signature are accepted
\* in that state for every data_id of the admin.
C34_OneSignatureEveryRead ==
    [][last'.op \in {"get_data", "get_authz"} =>
          LET req == last'.req IN
          /\ (/\ req.data_id \in AdministeredBy(req.admin_id)
              /\ Fresh(req)
              /\ first_key(req.admin_id) # NoKey
              /\ req.signature = Sign(first_key(req.admin_id), req.expire_time)) =>
                 Accepted(last')
          /\ Accepted(last') =>
                 \A d \in AdministeredBy(req.admin_id) :
                    signed_get_response([req EXCEPT !.data_id = d]) = Ok]_vars

\* read_grants has accepted a signature for one data_id of an admin who
\* administers two, after time has passed
C34_Witness ==
    /\ last.op = "get_authz"
    /\ Accepted(last)
    /\ now > 0
    /\ AdministeredBy(last.req.admin_id) = DataIds

\* the record a create request makes is not stored
TargetAbsent(op, req) ==
    CASE op = "add_key" -> first_key(req.user_id) = NoKey
      [] op = "add_entry" -> federated_catalog[req.data_id] = NoEntry
      [] op = "add_authz" ->
            /\ local_catalog[req.data_id] # NoData
            /\ local_authorization[<<req.data_id, req.access_grantee_id>>] = NoAuthZ

\* C35: a register, publish or grant_access request that was accepted before
\* is accepted again when it comes in once more while its expire_time has not
\* passed, its signature still verifies under the key it is checked against
\* and the record it made is no longer stored; it makes the record again.
C35_ReplayAccepted ==
    [][(/\ last'.op \in {"add_key", "add_entry", "add_authz"}
        /\ <<last'.op, last'.req>> \in seen.reqs
        /\ Fresh(last'.req)
        /\ TargetAbsent(last'.op, last'.req)
        /\ ecdsa_verify(VerifyingKey(last'.op, last'.req), ClientMsg(last'.op, last'.req),
                        last'.req.signature) = "ok")
       => (Accepted(last') /\ Stores' # Stores)]_vars

\* a publish that had been accepted before has been accepted again
C35_Witness ==
    /\ last.op = "add_entry"
    /\ Accepted(last)
    /\ federated_catalog[last.req.data_id] # NoEntry
    /\ <<last.op, last.req>> \in seen.again

\* the operations that take a record out of a catalog
Removals == {"delete_entry", "delete_data", "delete_authz"}

\* the record the removal names is stored and belongs to the claimed identity
OwnsStoredRecord(op, req) ==
    CASE op = "delete_entry" ->
            /\ federated_catalog[req.data_id] # NoEntry
            /\ federated_catalog[req.data_id].user_id = req.user_id
      [] op = "delete_data" ->
            /\ local_catalog[req.data_id] # NoData
            /\ local_catalog[req.data_id].admin_id = req.admin_id
            /\ local_catalog[req.data_id].endpoint = req.endpoint
            /\ local_catalog[req.data_id].description = req.description
      [] op = "delete_authz" ->
            /\ local_catalog[req.data_id] # NoData
            /\ local_authorization[<<req.data_id, req.access_grantee_id>>] # NoAuthZ

\* C36: removing an identity's key from KeyDirectory leaves the catalog
\* entries, the local resources and the grants as they are, and a stored entry
\* is still returned by lookup; while the claimed identity has no key on file no
\* retract, revoke_resource or revoke_grant is accepted and the stores stay as
\* they are; once the identity has a key on file again, whichever key it is, a
\* fresh removal of one of its records signed with that key is accepted and
\* takes the record out, whatever key was on file when the record was made.
C36_RecordsOutliveTheKey ==
    [][/\ last'.op = "delete_key" =>
              /\ federated_catalog' = federated_catalog
              /\ local_catalog' = local_catalog
              /\ local_authorization' = local_authorization
       /\ (/\ last'.op = "get_by_dataid"
           /\ federated_catalog[last'.req.data_id] # NoEntry) =>
              /\ Accepted(last')
              /\ last'.body.catalog = {FcRow(last'.req.data_id)}
       /\ (/\ last'.op \in Removals
           /\ KeyOnFile(last'.op, last'.req) = NoKey) =>
              /\ ~Accepted(last')
              /\ Stores' = Stores
       /\ (/\ last'.op \in Removals
           /\ OwnsStoredRecord(last'.op, last'.req)
           /\ Fresh(last'.req)
           /\ KeyOnFile(last'.op, last'.req) # NoKey
           /\ ecdsa_verify(KeyOnFile(last'.op, last'.req),
                           ClientMsg(last'.op, last'.req), last'.req.signature) = "ok") =>
              /\ Accepted(last')
              /\ last'.op = "delete_entry" =>
                     federated_catalog'[last'.req.data_id] = NoEntry
              /\ last'.op = "delete_data" =>
                     local_catalog'[last'.req.data_id] = NoData
              /\ last'.op = "delete_authz" =>
                     local_authorization'[<<last'.req.data_id,
                                            last'.req.access_grantee_id>>] = NoAuthZ]_vars

\* a grant on a resource made while A had one key on file has been revoked by
\* a request signed with the other key, on file for A since A registered
\* again, while A's catalog entry published under the earlier key is stored
C36_Witness ==
    /\ last.op = "delete_authz"
    /\ Accepted(last)
    /\ local_catalog[last.req.data_id] # NoData
    /\ administered_under[last.req.data_id] # NoKey
    /\ first_key(local_catalog[last.req.data_id].admin_id) # NoKey
    /\ first_key(local_catalog[last.req.data_id].admin_id)
           # administered_under[last.req.data_id]
    /\ last.req.signature.key = first_key(local_catalog[last.req.data_id].admin_id)
    /\ federated_catalog["d1"] # NoEntry
    /\ published_under["d1"] = administered_under[last.req.data_id]

====
